---- MODULE Spec2Model ----
(***************************************************************************)
(* Aadhaar Pulse front end: the Location Context (LocationProvider), the   *)
(* sidebar LocationSelector, the Equity map controls, the typed API        *)
(* client, the application shell with its date picker, the pages' queries  *)
(* and the Forecast, Dashboard and Anomalies pages, as state machines.     *)
(*                                                                         *)
(* A JavaScript string is a sequence of one-character strings, so that     *)
(* trim, toLowerCase, the /\s+/ replacement, split(' ') and the default    *)
(* Array.prototype.sort are computed character by character.               *)
(***************************************************************************)
EXTENDS Integers, Sequences, FiniteSets, TLC

\* ------------------------------------------------------------------------
\* Characters and strings
\* ------------------------------------------------------------------------

\* String.prototype.toUpperCase / toLowerCase on the ASCII letters.
UpperOf ==
  ("a" :> "A") @@ ("b" :> "B") @@ ("c" :> "C") @@ ("d" :> "D") @@ ("e" :> "E") @@ ("f" :> "F")
  @@ ("g" :> "G") @@ ("h" :> "H") @@ ("i" :> "I") @@ ("j" :> "J") @@ ("k" :> "K") @@ ("l" :> "L")
  @@ ("m" :> "M") @@ ("n" :> "N") @@ ("o" :> "O") @@ ("p" :> "P") @@ ("q" :> "Q") @@ ("r" :> "R")
  @@ ("s" :> "S") @@ ("t" :> "T") @@ ("u" :> "U") @@ ("v" :> "V") @@ ("w" :> "W") @@ ("x" :> "X")
  @@ ("y" :> "Y") @@ ("z" :> "Z")

LowerOf ==
  ("A" :> "a") @@ ("B" :> "b") @@ ("C" :> "c") @@ ("D" :> "d") @@ ("E" :> "e") @@ ("F" :> "f")
  @@ ("G" :> "g") @@ ("H" :> "h") @@ ("I" :> "i") @@ ("J" :> "j") @@ ("K" :> "k") @@ ("L" :> "l")
  @@ ("M" :> "m") @@ ("N" :> "n") @@ ("O" :> "o") @@ ("P" :> "p") @@ ("Q" :> "q") @@ ("R" :> "r")
  @@ ("S" :> "s") @@ ("T" :> "t") @@ ("U" :> "u") @@ ("V" :> "v") @@ ("W" :> "w") @@ ("X" :> "x")
  @@ ("Y" :> "y") @@ ("Z" :> "z")

\* UTF-16 code units, the order the default Array.prototype.sort compares by.
CodeUnit ==
  (" " :> 32) @@ ("\t" :> 9) @@ ("&" :> 38) @@ ("," :> 44) @@ ("0" :> 48) @@ ("1" :> 49)
  @@ ("2" :> 50) @@ ("3" :> 51) @@ ("4" :> 52) @@ ("5" :> 53) @@ ("6" :> 54) @@ ("7" :> 55)
  @@ ("8" :> 56) @@ ("9" :> 57) @@ ("A" :> 65) @@ ("B" :> 66) @@ ("C" :> 67) @@ ("D" :> 68)
  @@ ("E" :> 69) @@ ("F" :> 70) @@ ("G" :> 71) @@ ("H" :> 72) @@ ("I" :> 73) @@ ("J" :> 74)
  @@ ("K" :> 75) @@ ("L" :> 76) @@ ("M" :> 77) @@ ("N" :> 78) @@ ("O" :> 79) @@ ("P" :> 80)
  @@ ("Q" :> 81) @@ ("R" :> 82) @@ ("S" :> 83) @@ ("T" :> 84) @@ ("U" :> 85) @@ ("V" :> 86)
  @@ ("W" :> 87) @@ ("X" :> 88) @@ ("Y" :> 89) @@ ("Z" :> 90) @@ ("a" :> 97) @@ ("b" :> 98)
  @@ ("c" :> 99) @@ ("d" :> 100) @@ ("e" :> 101) @@ ("f" :> 102) @@ ("g" :> 103) @@ ("h" :> 104)
  @@ ("i" :> 105) @@ ("j" :> 106) @@ ("k" :> 107) @@ ("l" :> 108) @@ ("m" :> 109) @@ ("n" :> 110)
  @@ ("o" :> 111) @@ ("p" :> 112) @@ ("q" :> 113) @@ ("r" :> 114) @@ ("s" :> 115) @@ ("t" :> 116)
  @@ ("u" :> 117) @@ ("v" :> 118) @@ ("w" :> 119) @@ ("x" :> 120) @@ ("y" :> 121) @@ ("z" :> 122)

\* String literals of the source and of the modelled backend.
sOdisha == <<"O", "d", "i", "s", "h", "a">>
sOrissa == <<"O", "r", "i", "s", "s", "a">>
sOrissaLower == <<"o", "r", "i", "s", "s", "a">>
sODISHA == <<"O", "D", "I", "S", "H", "A">>
sOdishaPadded == <<" ", "O", "d", "i", "s", "h", "a", " ">>
sWestBengalWide == <<"W", "e", "s", "t", " ", " ", "B", "e", "n", "g", "a", "l">>
sJammuAmp == <<"J", "a", "m", "m", "u", " ", "&", " ", "K", "a", "s", "h", "m", "i", "r">>
sJammuAnd == <<"J", "a", "m", "m", "u", " ", "a", "n", "d", " ", "K", "a", "s", "h", "m", "i", "r">>
sTamilNaduWide == <<"T", "a", "m", "i", "l", " ", " ", "N", "a", "d", "u">>
sGoaLower == <<"g", "o", "a">>
sGoa == <<"G", "o", "a">>
sGOA == <<"G", "O", "A">>
sNumeric == <<"1", "2", "3">>
sAllIndia == <<"A", "l", "l", " ", "I", "n", "d", "i", "a">>
sNullText == <<"n", "u", "l", "l">>
sCommaSpace == <<",", " ">>
sPuri == <<"P", "u", "r", "i">>
sCuttack == <<"C", "u", "t", "t", "a", "c", "k">>
sPanaji == <<"P", "a", "n", "a", "j", "i">>
sMargao == <<"M", "a", "r", "g", "a", "o">>
sLadakh == <<"L", "a", "d", "a", "k", "h">>
sUttaranchal == <<"U", "t", "t", "a", "r", "a", "n", "c", "h", "a", "l">>
sUttarakhand == <<"U", "t", "t", "a", "r", "a", "k", "h", "a", "n", "d">>

\* null (selectedState / selectedDistrict are `string | null`).  The element
\* "null" is not a single character, so NULL differs from every string.
NULL == <<"null">>

\* JavaScript truthiness of a `string | null`: '' and null are falsy.
Truthy(v) == v # NULL /\ v # <<>>

ToUpperChar(c) == IF c \in DOMAIN UpperOf THEN UpperOf[c] ELSE c

ToLowerChar(c) == IF c \in DOMAIN LowerOf THEN LowerOf[c] ELSE c

ToLowerCase(s) == [i \in 1..Len(s) |-> ToLowerChar(s[i])]

\* \s of the regular expressions, over the modelled alphabet.
IsSpace(c) == c \in {" ", "\t"}

IsDigit(c) == c \in {"0", "1", "2", "3", "4", "5", "6", "7", "8", "9"}

RECURSIVE TrimStart(_)
TrimStart(s) == IF s # <<>> /\ IsSpace(Head(s)) THEN TrimStart(Tail(s)) ELSE s

RECURSIVE TrimEnd(_)
TrimEnd(s) ==
  IF s # <<>> /\ IsSpace(s[Len(s)]) THEN TrimEnd(SubSeq(s, 1, Len(s) - 1)) ELSE s

\* String.prototype.trim
Trim(s) == TrimEnd(TrimStart(s))

\* s.replace(/\s+/g, ' '): every maximal run of whitespace becomes one space.
RECURSIVE CollapseSpaces(_)
CollapseSpaces(s) ==
  IF s = <<>> THEN <<>>
  ELSE IF IsSpace(Head(s))
       THEN <<" ">> \o CollapseSpaces(TrimStart(s))
       ELSE <<Head(s)>> \o CollapseSpaces(Tail(s))

\* s.split(' '): the words between single space characters (possibly empty).
RECURSIVE SplitOnSpace(_, _)
SplitOnSpace(s, word) ==
  IF s = <<>> THEN <<word>>
  ELSE IF Head(s) = " "
       THEN <<word>> \o SplitOnSpace(Tail(s), <<>>)
       ELSE SplitOnSpace(Tail(s), Append(word, Head(s)))

\* words.join(' ')
RECURSIVE JoinWithSpace(_)
JoinWithSpace(words) ==
  IF Len(words) = 0 THEN <<>>
  ELSE IF Len(words) = 1 THEN words[1]
  ELSE words[1] \o <<" ">> \o JoinWithSpace(Tail(words))

\* word.charAt(0).toUpperCase() + word.slice(1).toLowerCase()
TitleWord(word) ==
  IF word = <<>> THEN <<>>
  ELSE <<ToUpperChar(word[1])>> \o ToLowerCase(Tail(word))

TitleCase(s) ==
  LET words == SplitOnSpace(s, <<>>)
  IN  JoinWithSpace([i \in 1..Len(words) |-> TitleWord(words[i])])

\* a < b in the default sort order: code unit by code unit, prefix first.
RECURSIVE StrLess(_, _)
StrLess(a, b) ==
  IF b = <<>> THEN FALSE
  ELSE IF a = <<>> THEN TRUE
  ELSE IF Head(a) = Head(b) THEN StrLess(Tail(a), Tail(b))
  ELSE CodeUnit[Head(a)] < CodeUnit[Head(b)]

RECURSIVE InsertSorted(_, _)
InsertSorted(x, sorted) ==
  IF sorted = <<>> THEN <<x>>
  ELSE IF StrLess(x, Head(sorted)) THEN <<x>> \o sorted
  ELSE <<Head(sorted)>> \o InsertSorted(x, Tail(sorted))

\* Array.prototype.sort() with no comparator, on an array of strings.
RECURSIVE SortStrings(_)
SortStrings(list) ==
  IF list = <<>> THEN <<>>
  ELSE InsertSorted(list[Len(list)], SortStrings(SubSeq(list, 1, Len(list) - 1)))

\* [...new Set(list)]: first occurrences, in order.
RECURSIVE Dedupe(_)
Dedupe(list) ==
  IF list = <<>> THEN <<>>
  ELSE LET init == Dedupe(SubSeq(list, 1, Len(list) - 1))
           x    == list[Len(list)]
       IN  IF \E i \in 1..Len(init) : init[i] = x THEN init ELSE Append(init, x)

SeqToSet(list) == {list[i] : i \in 1..Len(list)}

IsSortedStrings(list) ==
  \A i \in 1..(Len(list) - 1) : ~StrLess(list[i + 1], list[i])

NoDuplicates(list) ==
  \A i, j \in 1..Len(list) : list[i] = list[j] => i = j

\* ------------------------------------------------------------------------
\* State-name normalization (fetchStates)
\* ------------------------------------------------------------------------

stateNormalization ==
     (<<"a", "n", "d", "h", "r", "a", " ", "p", "r", "a", "d", "e", "s", "h">> :> <<"A", "n", "d", "h", "r", "a", " ", "P", "r", "a", "d", "e", "s", "h">>)
  @@ (<<"a", "n", "d", "a", "m", "a", "n", " ", "&", " ", "n", "i", "c", "o", "b", "a", "r", " ", "i", "s", "l", "a", "n", "d", "s">> :> <<"A", "n", "d", "a", "m", "a", "n", " ", "a", "n", "d", " ", "N", "i", "c", "o", "b", "a", "r", " ", "I", "s", "l", "a", "n", "d", "s">>)
  @@ (<<"d", "a", "d", "r", "a", " ", "&", " ", "n", "a", "g", "a", "r", " ", "h", "a", "v", "e", "l", "i">> :> <<"D", "a", "d", "r", "a", " ", "a", "n", "d", " ", "N", "a", "g", "a", "r", " ", "H", "a", "v", "e", "l", "i", " ", "a", "n", "d", " ", "D", "a", "m", "a", "n", " ", "a", "n", "d", " ", "D", "i", "u">>)
  @@ (<<"d", "a", "d", "r", "a", " ", "a", "n", "d", " ", "n", "a", "g", "a", "r", " ", "h", "a", "v", "e", "l", "i">> :> <<"D", "a", "d", "r", "a", " ", "a", "n", "d", " ", "N", "a", "g", "a", "r", " ", "H", "a", "v", "e", "l", "i", " ", "a", "n", "d", " ", "D", "a", "m", "a", "n", " ", "a", "n", "d", " ", "D", "i", "u">>)
  @@ (<<"d", "a", "d", "r", "a", " ", "a", "n", "d", " ", "n", "a", "g", "a", "r", " ", "h", "a", "v", "e", "l", "i", " ", "a", "n", "d", " ", "d", "a", "m", "a", "n", " ", "a", "n", "d", " ", "d", "i", "u">> :> <<"D", "a", "d", "r", "a", " ", "a", "n", "d", " ", "N", "a", "g", "a", "r", " ", "H", "a", "v", "e", "l", "i", " ", "a", "n", "d", " ", "D", "a", "m", "a", "n", " ", "a", "n", "d", " ", "D", "i", "u">>)
  @@ (<<"d", "a", "m", "a", "n", " ", "&", " ", "d", "i", "u">> :> <<"D", "a", "d", "r", "a", " ", "a", "n", "d", " ", "N", "a", "g", "a", "r", " ", "H", "a", "v", "e", "l", "i", " ", "a", "n", "d", " ", "D", "a", "m", "a", "n", " ", "a", "n", "d", " ", "D", "i", "u">>)
  @@ (<<"d", "a", "m", "a", "n", " ", "a", "n", "d", " ", "d", "i", "u">> :> <<"D", "a", "d", "r", "a", " ", "a", "n", "d", " ", "N", "a", "g", "a", "r", " ", "H", "a", "v", "e", "l", "i", " ", "a", "n", "d", " ", "D", "a", "m", "a", "n", " ", "a", "n", "d", " ", "D", "i", "u">>)
  @@ (<<"j", "a", "m", "m", "u", " ", "&", " ", "k", "a", "s", "h", "m", "i", "r">> :> <<"J", "a", "m", "m", "u", " ", "a", "n", "d", " ", "K", "a", "s", "h", "m", "i", "r">>)
  @@ (<<"o", "d", "i", "s", "h", "a">> :> <<"O", "d", "i", "s", "h", "a">>)
  @@ (<<"o", "r", "i", "s", "s", "a">> :> <<"O", "d", "i", "s", "h", "a">>)
  @@ (<<"p", "o", "n", "d", "i", "c", "h", "e", "r", "r", "y">> :> <<"P", "u", "d", "u", "c", "h", "e", "r", "r", "y">>)
  @@ (<<"w", "e", "s", "t", " ", "b", "e", "n", "g", "a", "l">> :> <<"W", "e", "s", "t", " ", "B", "e", "n", "g", "a", "l">>)
  @@ (<<"w", "e", "s", "t", " ", " ", "b", "e", "n", "g", "a", "l">> :> <<"W", "e", "s", "t", " ", "B", "e", "n", "g", "a", "l">>)
  @@ (<<"w", "e", "s", "t", " ", "b", "a", "n", "g", "a", "l">> :> <<"W", "e", "s", "t", " ", "B", "e", "n", "g", "a", "l">>)
  @@ (<<"w", "e", "s", "t", "b", "e", "n", "g", "a", "l">> :> <<"W", "e", "s", "t", " ", "B", "e", "n", "g", "a", "l">>)

\* The key looked up in the table: s.trim().toLowerCase().replace(/\s+/g, ' ')
NormalizationKey(s) == CollapseSpaces(ToLowerCase(Trim(s)))

\* The .map callback: table entry, else the title-cased trimmed name.  The
\* variant never consults the table.
NormalizeStateNameTitleOnly(s) == TitleCase(Trim(s))

NormalizeStateName(s) ==
  IF NormalizationKey(s) \in DOMAIN stateNormalization
  THEN stateNormalization[NormalizationKey(s)]
  ELSE TitleCase(Trim(s))

\* The .filter callback: s && !/^\d+$/.test(s)
KeepStateEntry(s) == s # <<>> /\ ~(\A i \in 1..Len(s) : IsDigit(s[i]))

\* stateList.filter(...)
RECURSIVE FilterStateEntries(_)
FilterStateEntries(list) ==
  IF list = <<>> THEN <<>>
  ELSE (IF KeepStateEntry(Head(list)) THEN <<Head(list)>> ELSE <<>>)
       \o FilterStateEntries(Tail(list))

NormalizeStateList(stateList) ==
  LET kept == FilterStateEntries(stateList)
      normalizedStates == [i \in 1..Len(kept) |-> NormalizeStateName(kept[i])]
  IN  SortStrings(Dedupe(normalizedStates))

\* ------------------------------------------------------------------------
\* JavaScript values of response bodies and optional arguments
\* ------------------------------------------------------------------------

JSUndefined == [t |-> "undefined"]

JSNull == [t |-> "null"]

JSString(s) == [t |-> "string", v |-> s]

JSNumber(n) == [t |-> "number", v |-> n]

JSArray(a) == [t |-> "array", v |-> a]

JSObject(fields) == [t |-> "object", v |-> fields]

JSTruthy(x) ==
  CASE x.t \in {"undefined", "null"} -> FALSE
    [] x.t = "string" -> x.v # <<>>
    [] x.t = "number" -> x.v # 0
    [] OTHER -> TRUE

\* x?.key for a key that is not an Array or String property.
OptionalGet(x, key) ==
  IF x.t = "object" /\ key \in DOMAIN x.v THEN x.v[key] ELSE JSUndefined

\* a || b
JSOr(a, b) == IF JSTruthy(a) THEN a ELSE b

\* The two list-unwrapping chains of the source.
\* response.data?.<key> || []            (LocationProvider)
UnwrapOrEmpty(body, key) == JSOr(OptionalGet(body, key), JSArray(<<>>))

\* response.data?.<key> || response.data || []   (api.ts)
UnwrapOrBody(body, key) ==
  JSOr(JSOr(OptionalGet(body, key), body), JSArray(<<>>))

\* ------------------------------------------------------------------------
\* API client (api.ts)
\* ------------------------------------------------------------------------

DigitChars == <<"0", "1", "2", "3", "4", "5", "6", "7", "8", "9">>

DigitChar(n) == DigitChars[n + 1]

TwoDigits(n) == <<DigitChar(n \div 10), DigitChar(n % 10)>>

\* The browser the shell runs in, and what becomes of the React tree.
VARIABLES
  timezoneOffset,      \* Date.prototype.getTimezoneOffset(): minutes the local
                       \* clock is behind UTC
  pickerChange,        \* e.target.value of the date picker's last change
                       \* event, NULL before the first one
  renderError          \* a render has thrown and the tree is unmounted

clientVars == <<timezoneOffset, pickerChange, renderError>>

\* A Date is the instant 00:00 UTC of a calendar day (what new Date of a
\* date-only string denotes) or the Invalid Date; ref, where present, is the
\* identity of the object.
IsLeapYear(year) == (year % 4 = 0 /\ year % 100 # 0) \/ year % 400 = 0

DaysInMonth(year, month) ==
  CASE month = 2 -> IF IsLeapYear(year) THEN 29 ELSE 28
    [] month \in {4, 6, 9, 11} -> 30
    [] OTHER -> 31

PreviousDay(date) ==
  IF date.day > 1 THEN [date EXCEPT !.day = @ - 1]
  ELSE IF date.month > 1
       THEN [date EXCEPT !.month = @ - 1,
                         !.day = DaysInMonth(date.year, date.month - 1)]
       ELSE [date EXCEPT !.year = @ - 1, !.month = 12, !.day = 31]

\* getFullYear(), getMonth() + 1, getDate(): the local clock reads
\* 00:00 - timezoneOffset, so behind UTC it still shows the day before.
LocalDate(date) == IF timezoneOffset > 0 THEN PreviousDay(date) ELSE date

\* format(date, 'yyyy-MM-dd') on the local calendar fields of the Date.
formatDate(date) ==
  TwoDigits(LocalDate(date).year \div 100)
    \o TwoDigits(LocalDate(date).year % 100) \o <<"-">>
    \o TwoDigits(LocalDate(date).month) \o <<"-">>
    \o TwoDigits(LocalDate(date).day)

IsDigitChar(c) == \E n \in 0..9 : DigitChars[n + 1] = c

DigitValue(c) == CHOOSE n \in 0..9 : DigitChars[n + 1] = c

NumberOf(s, from, to) ==
  IF from > to THEN 0
  ELSE LET RECURSIVE Value(_)
           Value(i) == IF i < from THEN 0
                       ELSE 10 * Value(i - 1) + DigitValue(s[i])
       IN Value(to)

\* The date-only form yyyy-MM-dd naming a day of the calendar.
IsDateString(s) ==
  /\ Len(s) = 10
  /\ s[5] = "-" /\ s[8] = "-"
  /\ \A i \in {1, 2, 3, 4, 6, 7, 9, 10} : IsDigitChar(s[i])
  /\ NumberOf(s, 6, 7) \in 1..12
  /\ NumberOf(s, 9, 10) \in 1..DaysInMonth(NumberOf(s, 1, 4), NumberOf(s, 6, 7))

\* new Date(value) for a value of <input type="date">: UTC midnight of the
\* day for a date-only string, the Invalid Date for ''.
NewDate(value, ref) ==
  IF IsDateString(value)
  THEN [year |-> NumberOf(value, 1, 4), month |-> NumberOf(value, 6, 7),
        day |-> NumberOf(value, 9, 10), ref |-> ref, valid |-> TRUE]
  ELSE [year |-> 0, month |-> 0, day |-> 0, ref |-> ref, valid |-> FALSE]

\* date-fns isValid(date); format() throws a RangeError when it is false.
IsValidDate(date) == date.valid

EmptyParams == [key \in {} |-> JSUndefined]

\* ...(value && { key: value }).  The variant spreads whenever the value is
\* neither null nor undefined.
SpreadIfNotNullish(value, key) ==
  IF value.t \notin {"undefined", "null"} THEN key :> value ELSE EmptyParams

SpreadIfTruthy(value, key) ==
  IF JSTruthy(value) THEN key :> value ELSE EmptyParams

\* The functions taking (simulationDate, filter?: LocationFilter).
SummaryFunctions ==
  {"fetchEnrollmentSummary", "fetchDemographicSummary",
   "fetchBiometricSummary"}

TrendFunctions ==
  {"fetchEnrollmentTrends", "fetchDemographicTrends", "fetchBiometricTrends"}

\* The functions taking optional positional arguments and no date.
MLFunctions ==
  {"fetchCapacityPlanning", "fetchUnderserved", "fetchFraudRisk",
   "fetchClustering", "fetchHotspots", "fetchMBUProjection",
   "fetchStateComparison", "fetchDistrictComparison",
   "fetchMonthlyComparison"}

ApiFunctions ==
  {"fetchKPIs", "fetchAnomalies", "fetchHeatmapData"}
    \cup SummaryFunctions \cup TrendFunctions \cup MLFunctions

sUnderservedScore ==
  <<"u", "n", "d", "e", "r", "s", "e", "r", "v", "e", "d", "_", "s", "c",
    "o", "r", "e">>

\* metric: string = 'underserved_score'
MetricOrDefault(metric) ==
  IF metric.t = "undefined" THEN JSString(sUnderservedScore) ELSE metric

SimulationDateParam(a) == "simulation_date" :> JSString(formatDate(a.date))

\* config.params of the GET each function issues.
RequestParams(fn, a) ==
  CASE fn \in {"fetchKPIs", "fetchHeatmapData"} ->
         SimulationDateParam(a)
    [] fn \in SummaryFunctions \cup TrendFunctions ->
         SimulationDateParam(a)
           @@ SpreadIfTruthy(OptionalGet(a.filter, "state"), "state")
           @@ SpreadIfTruthy(OptionalGet(a.filter, "district"), "district")
    [] fn = "fetchAnomalies" ->
         SimulationDateParam(a)
           @@ SpreadIfTruthy(OptionalGet(a.filter, "state"), "state")
    [] fn = "fetchCapacityPlanning" ->
         SpreadIfTruthy(a.state, "state")
           @@ SpreadIfTruthy(a.district, "district")
           @@ SpreadIfTruthy(a.period, "period")
           @@ SpreadIfTruthy(a.level, "level")
    [] fn \in {"fetchUnderserved", "fetchFraudRisk"} ->
         SpreadIfTruthy(a.state, "state")
           @@ SpreadIfTruthy(a.period, "period")
           @@ SpreadIfTruthy(a.limit, "limit")
    [] fn = "fetchClustering" ->
         SpreadIfTruthy(a.state, "state")
    [] fn \in {"fetchHotspots", "fetchMBUProjection"} ->
         SpreadIfTruthy(a.state, "state")
           @@ SpreadIfTruthy(a.period, "period")
    [] fn = "fetchStateComparison" ->
         ("metric" :> MetricOrDefault(a.metric))
           @@ SpreadIfTruthy(a.period, "period")
    [] fn = "fetchDistrictComparison" ->
         ("state" :> a.state) @@ ("metric" :> MetricOrDefault(a.metric))
           @@ SpreadIfTruthy(a.topN, "top_n")
    [] fn = "fetchMonthlyComparison" ->
         ("metric" :> MetricOrDefault(a.metric))
           @@ SpreadIfTruthy(a.state, "state")
    [] fn \in {"fetchMLStatus", "fetchHealth", "fetchTop50Needy"} ->
         EmptyParams

\* The value each function returns for a response body.
ReturnValue(fn, body) ==
  CASE fn \in TrendFunctions -> UnwrapOrBody(body, "data")
    [] fn = "fetchAnomalies" -> UnwrapOrBody(body, "anomalies")
    [] fn = "fetchHeatmapData" -> UnwrapOrBody(body, "locations")
    [] OTHER -> body

\* Argument values explored.
OptionalStrings ==
  {JSUndefined, JSNull, JSString(<<>>), JSString(sOdisha)}

OptionalNumbers == {JSUndefined, JSNumber(0), JSNumber(10)}

LocationFilters ==
  {JSUndefined}
    \cup {JSObject(("state" :> st) @@ ("district" :> di)) :
            st \in OptionalStrings, di \in OptionalStrings}

SimulationDates ==
  {[year |-> 2025, month |-> 12, day |-> 15],
   [year |-> 2025, month |-> 9, day |-> 1]}

NoArgs ==
  [date |-> [year |-> 2025, month |-> 12, day |-> 15], filter |-> JSUndefined,
   state |-> JSUndefined, district |-> JSUndefined, period |-> JSUndefined,
   level |-> JSUndefined, limit |-> JSUndefined, topN |-> JSUndefined,
   metric |-> JSUndefined]

\* The argument tuples explored for each function.
ArgumentsOf(fn) ==
  CASE fn \in {"fetchKPIs", "fetchHeatmapData"} ->
         {[NoArgs EXCEPT !.date = d] : d \in SimulationDates}
    [] fn \in SummaryFunctions \cup TrendFunctions \cup {"fetchAnomalies"} ->
         {[NoArgs EXCEPT !.date = d, !.filter = f] :
            d \in SimulationDates, f \in LocationFilters}
    [] fn = "fetchCapacityPlanning" ->
         {[NoArgs EXCEPT !.state = st, !.district = di, !.period = pe,
                         !.level = le] :
            st \in OptionalStrings, di \in OptionalStrings,
            pe \in OptionalStrings, le \in OptionalStrings}
    [] fn \in {"fetchUnderserved", "fetchFraudRisk"} ->
         {[NoArgs EXCEPT !.state = st, !.period = pe, !.limit = li] :
            st \in OptionalStrings, pe \in OptionalStrings,
            li \in OptionalNumbers}
    [] fn = "fetchClustering" ->
         {[NoArgs EXCEPT !.state = st] : st \in OptionalStrings}
    [] fn \in {"fetchHotspots", "fetchMBUProjection"} ->
         {[NoArgs EXCEPT !.state = st, !.period = pe] :
            st \in OptionalStrings, pe \in OptionalStrings}
    [] fn = "fetchStateComparison" ->
         {[NoArgs EXCEPT !.period = pe] : pe \in OptionalStrings}
    [] fn = "fetchDistrictComparison" ->
         {[NoArgs EXCEPT !.state = st, !.topN = tn] :
            st \in {JSString(<<>>), JSString(sOdisha)},
            tn \in OptionalNumbers}
    [] fn = "fetchMonthlyComparison" ->
         {[NoArgs EXCEPT !.state = st] : st \in OptionalStrings}

\* Elements of list-shaped payloads (opaque records).
ListItems == <<JSObject("id" :> JSNumber(2)), JSObject("id" :> JSNumber(1))>>

\* The envelope key each list consumer reads.
EnvelopeKey(fn) ==
  CASE fn \in TrendFunctions -> "data"
    [] fn = "fetchAnomalies" -> "anomalies"
    [] fn = "fetchHeatmapData" -> "locations"
    [] OTHER -> "data"

\* Response bodies explored: the envelope, a bare array, and other JSON.
ResponseBodies(fn) ==
  << JSObject(EnvelopeKey(fn) :> JSArray(ListItems)),
     JSObject(EnvelopeKey(fn) :> JSArray(<<>>)),
     JSArray(ListItems),
     JSArray(<<>>),
     JSObject("error" :> JSString(sNullText)),
     JSObject(EnvelopeKey(fn) :> JSNull),
     JSNull,
     JSString(<<>>),
     JSString(sNullText),
     JSNumber(0) >>

\* ------------------------------------------------------------------------
\* Bounds and the modelled backend
\* ------------------------------------------------------------------------

\* District-list requests issued in one run.
MaxRequests == 2

\* Length of the raw state lists explored for the normalization.
MaxRawStates == 3

\* Raw names the backend may list: alias-table variants in several casings
\* and spacings, names outside the table, a numeric entry.
RawStateNames ==
  {sOrissa, sOrissaLower, sODISHA, sOdishaPadded, sWestBengalWide,
   sJammuAmp, sJammuAnd, sTamilNaduWide, sGoaLower, sNumeric}

RECURSIVE ListsUpTo(_, _)
ListsUpTo(names, n) ==
  IF n = 0 THEN {<<>>}
  ELSE LET shorter == ListsUpTo(names, n - 1)
       IN  shorter \cup {Append(l, x) : l \in shorter, x \in names}

\* Raw lists GET /api/enrollment/states may return.
RawStateLists ==
  { <<sOrissa, sGoaLower>>,
    <<sGOA, sODISHA, sOrissaLower, sNumeric>> }

\* Raw list GET /api/enrollment/districts returns for a state (unsorted).
DistrictsOfState(state) ==
  IF state = sOdisha THEN <<sPuri, sCuttack>>
  ELSE IF state = sGoa THEN <<sPanaji, sMargao>>
  ELSE <<>>

StatesResponseBody(rawList) == JSObject("states" :> JSArray(rawList))

DistrictsResponseBody(state) ==
  JSObject("districts" :> JSArray(DistrictsOfState(state)))

\* NAME_1 values of the features of /india-states.geojson that are modelled.
GeoFeatureNames == {sOrissa, sLadakh}

\* item.name of the Equity leaderboard in the national view.
LeaderboardNames == {sGoa}

\* ------------------------------------------------------------------------
\* Location Context state
\* ------------------------------------------------------------------------

VARIABLES
  selectedState,       \* useState<string | null>(null)
  selectedDistrict,    \* useState<string | null>(null)
  states,              \* useState<string[]>([])
  districts,           \* useState<string[]>([])
  isLoadingStates,     \* useState(true)
  isLoadingDistricts,  \* useState(false)
  pendingEffect,       \* a render with a changed dependency is committed and
                       \* the district effect has not run yet
  backendStates,       \* the raw list the backend holds
  statesFetch,         \* "pending" | "resolved" | "rejected"
  requests,            \* district-list requests issued so far, with status
  lastEvent,           \* the last event handler or promise callback that ran
  chosenUnder,         \* selectedState at the time selectedDistrict was picked
  apiPhase,            \* "idle" | "pending" | "fulfilled" | "rejected"
  apiFn,               \* the API client function invoked
  apiArgs,             \* its arguments
  apiParams,           \* config.params of the request it issued
  apiBody,             \* response.data
  apiResult,           \* the value its promise resolved to
  apiHttp              \* the HTTP requests the invocation issued, with outcome

contextVars ==
  <<selectedState, selectedDistrict, states, districts,
    isLoadingStates, isLoadingDistricts, pendingEffect>>

locationVars ==
  <<selectedState, selectedDistrict, states, districts, isLoadingStates,
    isLoadingDistricts, pendingEffect, backendStates, statesFetch, requests,
    lastEvent, chosenUnder>>

apiVars ==
  <<apiPhase, apiFn, apiArgs, apiParams, apiBody, apiResult, apiHttp>>

\* The application shell (AppContent), the mounted page and the Query Cache.
VARIABLES
  route,               \* the page the router renders, "none" when no route
                       \* declaring queries is matched
  simulationDate,      \* useState(new Date('2025-12-15')); ref is the identity
                       \* of the Date object
  sidebarOpen,         \* useState(true)
  selectedPeriod,      \* the Risk page's useState<string | undefined>()
  pendingRender,       \* a state the mounted page reads has changed and the
                       \* page has not rendered again yet
  observed,            \* the query keys the mounted page's observers follow
  cache,               \* the Query Cache: key -> QueryEntry
  fetchCount           \* network calls the query functions have issued

queryVars ==
  <<route, simulationDate, sidebarOpen, selectedPeriod, pendingRender,
    observed, cache, fetchCount>>

\* The Forecast page: its local state, the mutations it has started and the
\* result its useMutation observer holds.
VARIABLES
  forecastDistrict,    \* the page's own selectedDistrict ('' initially)
  horizonDays,
  mutations,           \* one record per forecastMutation.mutate()
  forecastMutation,    \* what useMutation returns: status, data, and the
                       \* mutation it belongs to
  renderedPending,     \* forecastMutation.isPending as of the committed render
  forecastRender       \* a render of the page is scheduled

forecastVars ==
  <<forecastDistrict, horizonDays, mutations, forecastMutation,
    renderedPending, forecastRender>>

\* What the Dashboard and the Anomalies page hold between renders.
VARIABLES
  enrollmentTrends,    \* data of the Dashboard's three trends queries
  demographicTrends,
  biometricTrends,
  combinedTrendsData,  \* the chart rows of the Dashboard's last render
  anomalies,           \* data of the Anomalies page's query
  severityFilter,      \* useState('all')
  dataTypeFilter,      \* useState('all')
  filteredAnomalies    \* the list of the Anomalies page's last render

pageVars ==
  <<enrollmentTrends, demographicTrends, biometricTrends, combinedTrendsData,
    anomalies, severityFilter, dataTypeFilter, filteredAnomalies>>

vars ==
  <<locationVars, apiVars, queryVars, forecastVars, clientVars, pageVars>>

\* Every consumer of the Location Context renders again after a change of the
\* context value; a handler or callback runs after the pending render.
PageFollows ==
  /\ ~pendingRender
  /\ pendingRender' = (route # "none")
  /\ UNCHANGED <<route, simulationDate, sidebarOpen, selectedPeriod, observed,
                 cache, fetchCount>>
  /\ UNCHANGED <<forecastVars, clientVars, pageVars>>

Event(op, arg) ==
  [op |-> op, arg |-> arg, prevState |-> selectedState,
   prevDistrict |-> selectedDistrict, prevRequests |-> Len(requests)]

InFlight == {i \in 1..Len(requests) : requests[i].status = "pending"}

\* Dependency array of the district effect: [selectedState].  The two
\* variants are the arrays [selectedState, selectedDistrict] and [].
DistrictEffectDepsWithDistrict(state, district) == <<state, district>>

DistrictEffectDepsEmpty(state, district) == <<>>

DistrictEffectDeps(state, district) == <<state>>

\* Dependency array of the states effect: [], so it runs on mount only.  The
\* variant is the array [selectedState].
StatesEffectDepsOnState(state) == <<state>>

StatesEffectDeps(state) == <<>>

\* The derived label computed on every render, by truthiness.  The variant
\* tests for null only (district != null, state ?? 'All India').
LocationLabelNullish(state, district) ==
  IF district # NULL
  THEN district \o sCommaSpace \o (IF state = NULL THEN sNullText ELSE state)
  ELSE IF state # NULL THEN state ELSE sAllIndia

LocationLabel(state, district) ==
  IF Truthy(district)
  THEN district \o sCommaSpace \o (IF state = NULL THEN sNullText ELSE state)
  ELSE IF Truthy(state) THEN state ELSE sAllIndia

locationLabel == LocationLabel(selectedState, selectedDistrict)

InitLocation(rawLists) ==
  /\ selectedState = NULL
  /\ selectedDistrict = NULL
  /\ states = <<>>
  /\ districts = <<>>
  /\ isLoadingStates = TRUE
  /\ isLoadingDistricts = FALSE
  /\ pendingEffect = FALSE
  /\ backendStates \in rawLists
  /\ statesFetch = "pending"
  /\ requests = <<>>
  /\ lastEvent = [op |-> "mount", arg |-> NULL, prevState |-> NULL,
                  prevDistrict |-> NULL, prevRequests |-> 0]
  /\ chosenUnder = NULL

\* No API client function has been invoked.
InitApiIdle ==
  /\ apiPhase = "idle"
  /\ apiFn = "none"
  /\ apiArgs = NoArgs
  /\ apiParams = EmptyParams
  /\ apiBody = JSUndefined
  /\ apiResult = JSUndefined
  /\ apiHttp = <<>>

\* The shell as constructed, with no page that declares queries mounted.
sDefaultDate == <<"2", "0", "2", "5", "-", "1", "2", "-", "1", "5">>

sSeptemberFirst == <<"2", "0", "2", "5", "-", "0", "9", "-", "0", "1">>

DefaultDate == NewDate(sDefaultDate, 0)

EmptyCache == [key \in {} |-> JSUndefined]

\* useMutation before the first mutate().
IdleMutation == [mutation |-> 0, status |-> "idle", data |-> JSUndefined]

\* The page-local values before any data has arrived.
InitPageData ==
  /\ enrollmentTrends = JSUndefined
  /\ demographicTrends = JSUndefined
  /\ biometricTrends = JSUndefined
  /\ combinedTrendsData = <<>>
  /\ anomalies = JSUndefined
  /\ severityFilter = "all"
  /\ dataTypeFilter = "all"
  /\ filteredAnomalies = <<>>

InitShellAt(routes, offsets) ==
  /\ InitPageData
  /\ timezoneOffset \in offsets
  /\ pickerChange = NULL
  /\ renderError = FALSE
  /\ route \in routes
  /\ simulationDate = DefaultDate
  /\ sidebarOpen = TRUE
  /\ selectedPeriod = NULL
  /\ pendingRender = (route # "none")
  /\ observed = <<>>
  /\ cache = EmptyCache
  /\ fetchCount = 0
  /\ forecastDistrict = <<>>
  /\ horizonDays = 14
  /\ mutations = <<>>
  /\ forecastMutation = IdleMutation
  /\ renderedPending = FALSE
  /\ forecastRender = FALSE

\* The pages are explored with the local clock on UTC.
InitShell(routes) == InitShellAt(routes, {0})

Init == InitLocation(RawStateLists) /\ InitApiIdle /\ InitShell({"none"})

\* ------------------------------------------------------------------------
\* Pages and their queries
\* ------------------------------------------------------------------------

sDecember == <<"d", "e", "c", "e", "m", "b", "e", "r">>

sNational == <<"n", "a", "t", "i", "o", "n", "a", "l">>

sStateLevel == <<"s", "t", "a", "t", "e">>

sDistrictLevel == <<"d", "i", "s", "t", "r", "i", "c", "t">>

sAllStates == <<"a", "l", "l", "_", "s", "t", "a", "t", "e", "s">>

\* The routes whose pages are modelled.
Pages ==
  {"Dashboard", "Enrollments", "Anomalies", "MapView", "Risk", "Operations"}

\* The useQuery declarations of each page, in source order.
PageQueries(page) ==
  CASE page = "Dashboard" ->
         <<"kpis", "enrollment-summary", "demographic-summary",
           "biometric-summary", "enrollment-trends", "demographic-trends",
           "biometric-trends">>
    [] page = "Enrollments" -> <<"kpis", "enrollment-trends">>
    [] page = "Anomalies" -> <<"anomalies">>
    [] page = "MapView" -> <<"heatmap">>
    [] page = "Risk" -> <<"ml-status", "fraud-risk", "hotspots">>
    [] page = "Operations" ->
         <<"ml-status", "capacity-planning", "capacity-states">>
    [] page = "Equity" ->
         <<"ml-status", "underserved", "top50-needy", "clustering",
           "state-comparison", "district-comparison">>
    [] OTHER -> <<>>

\* queryFn of each declaration.
QueryFn(q) ==
  CASE q = "kpis" -> "fetchKPIs"
    [] q = "enrollment-summary" -> "fetchEnrollmentSummary"
    [] q = "demographic-summary" -> "fetchDemographicSummary"
    [] q = "biometric-summary" -> "fetchBiometricSummary"
    [] q = "enrollment-trends" -> "fetchEnrollmentTrends"
    [] q = "demographic-trends" -> "fetchDemographicTrends"
    [] q = "biometric-trends" -> "fetchBiometricTrends"
    [] q = "anomalies" -> "fetchAnomalies"
    [] q = "heatmap" -> "fetchHeatmapData"
    [] q = "ml-status" -> "fetchMLStatus"
    [] q = "fraud-risk" -> "fetchFraudRisk"
    [] q = "hotspots" -> "fetchHotspots"
    [] q \in {"capacity-planning", "capacity-states"} ->
         "fetchCapacityPlanning"
    [] q = "underserved" -> "fetchUnderserved"
    [] q = "top50-needy" -> "fetchTop50Needy"
    [] q = "clustering" -> "fetchClustering"
    [] q = "state-comparison" -> "fetchStateComparison"
    [] q = "district-comparison" -> "fetchDistrictComparison"

\* What a page reads when it renders: the simulationDate prop, the Location
\* Context and, on the Risk page, its own selectedPeriod.
RenderContext ==
  [date |-> simulationDate, state |-> selectedState,
   district |-> selectedDistrict, period |-> selectedPeriod]

\* Operations: selectedDistrict ? 'district' : selectedState ? 'state' :
\* 'national'.
OperationsLevel(ctx) ==
  IF Truthy(ctx.district) THEN sDistrictLevel
  ELSE IF Truthy(ctx.state) THEN sStateLevel ELSE sNational

sSeptember == <<"s", "e", "p", "t", "e", "m", "b", "e", "r">>

sOctober == <<"o", "c", "t", "o", "b", "e", "r">>

sNovember == <<"n", "o", "v", "e", "m", "b", "e", "r">>

\* Equity: periods[date.getMonth()] || '' on the local month of the date.
getPeriodFromDate(date) ==
  CASE LocalDate(date).month = 9 -> sSeptember
    [] LocalDate(date).month = 10 -> sOctober
    [] LocalDate(date).month = 11 -> sNovember
    [] LocalDate(date).month = 12 -> sDecember
    [] OTHER -> <<>>

\* A Date object used as a key component: its day and its identity.
DateObjectText(date) == formatDate(date) \o <<"#", DigitChar(date.ref)>>

\* queryKey of each declaration: [name, ...parts].  An undefined part hashes
\* like null.  The Risk page's own selectedState is never set.  The variant
\* puts the Date object itself in the key instead of dateStr.
QueryKeyByDateObject(page, q, ctx) ==
  [name |-> q,
   parts |->
     CASE page = "Dashboard" /\ q # "kpis" ->
            <<DateObjectText(ctx.date), ctx.state, ctx.district>>
       [] q \in {"ml-status", "capacity-states"} -> <<>>
       [] page = "Risk" /\ q # "ml-status" -> <<NULL, ctx.period>>
       [] q = "capacity-planning" ->
            <<ctx.state, ctx.district, NULL, OperationsLevel(ctx)>>
       [] q = "top50-needy" -> <<>>
       [] q = "underserved" -> <<ctx.state, getPeriodFromDate(ctx.date)>>
       [] q = "clustering" -> <<ctx.state>>
       [] q = "state-comparison" ->
            <<sUnderservedScore, getPeriodFromDate(ctx.date)>>
       [] q = "district-comparison" -> <<ctx.state, sUnderservedScore>>
       [] OTHER -> <<DateObjectText(ctx.date)>>]

QueryKey(page, q, ctx) ==
  [name |-> q,
   parts |->
     CASE page = "Dashboard" /\ q # "kpis" ->
            <<formatDate(ctx.date), ctx.state, ctx.district>>
       [] q \in {"ml-status", "capacity-states"} -> <<>>
       [] page = "Risk" /\ q # "ml-status" -> <<NULL, ctx.period>>
       [] q = "capacity-planning" ->
            <<ctx.state, ctx.district, NULL, OperationsLevel(ctx)>>
       [] q = "top50-needy" -> <<>>
       [] q = "underserved" -> <<ctx.state, getPeriodFromDate(ctx.date)>>
       [] q = "clustering" -> <<ctx.state>>
       [] q = "state-comparison" ->
            <<sUnderservedScore, getPeriodFromDate(ctx.date)>>
       [] q = "district-comparison" -> <<ctx.state, sUnderservedScore>>
       [] OTHER -> <<formatDate(ctx.date)>>]

\* A context value as a JavaScript argument.
ToJS(v) == IF v = NULL THEN JSNull ELSE JSString(v)

\* value || undefined
OrUndefined(v) == IF Truthy(v) THEN JSString(v) ELSE JSUndefined

ToJSOptional(v) == IF v = NULL THEN JSUndefined ELSE JSString(v)

\* The arguments each queryFn passes to its API function.
QueryArgs(page, q, ctx) ==
  CASE page = "Dashboard" /\ q # "kpis" ->
         [NoArgs EXCEPT
            !.date = ctx.date,
            !.filter = JSObject(("state" :> ToJS(ctx.state))
                                  @@ ("district" :> ToJS(ctx.district)))]
    [] q = "ml-status" -> NoArgs
    [] page = "Risk" /\ q # "ml-status" ->
         [NoArgs EXCEPT !.period = ToJSOptional(ctx.period)]
    [] q = "capacity-planning" ->
         [NoArgs EXCEPT !.state = OrUndefined(ctx.state),
                        !.district = OrUndefined(ctx.district),
                        !.level = JSString(OperationsLevel(ctx))]
    [] q = "capacity-states" -> [NoArgs EXCEPT !.level = JSString(sAllStates)]
    [] q = "top50-needy" -> NoArgs
    [] q = "underserved" ->
         [NoArgs EXCEPT !.state = OrUndefined(ctx.state),
                        !.period = OrUndefined(getPeriodFromDate(ctx.date))]
    [] q = "clustering" -> [NoArgs EXCEPT !.state = OrUndefined(ctx.state)]
    [] q = "state-comparison" ->
         [NoArgs EXCEPT !.metric = JSString(sUnderservedScore),
                        !.period = OrUndefined(getPeriodFromDate(ctx.date))]
    [] q = "district-comparison" ->
         [NoArgs EXCEPT !.state = ToJS(ctx.state),
                        !.metric = JSString(sUnderservedScore),
                        !.topN = JSNumber(20)]
    [] OTHER -> [NoArgs EXCEPT !.date = ctx.date]

\* The enabled option of each declaration (true when absent).  The variant
\* enables the Equity page's district comparison whenever selectedState is
\* not null.
QueryEnabledUnlessNull(page, q, ctx) ==
  /\ q = "capacity-states" => (~Truthy(ctx.state) /\ ~Truthy(ctx.district))
  /\ q = "state-comparison" => ~Truthy(ctx.state)
  /\ q = "district-comparison" => ctx.state # NULL

QueryEnabled(page, q, ctx) ==
  /\ q = "capacity-states" => (~Truthy(ctx.state) /\ ~Truthy(ctx.district))
  /\ q = "state-comparison" => ~Truthy(ctx.state)
  /\ q = "district-comparison" => Truthy(ctx.state)

\* One entry per useQuery of the page: the key it declares and the request
\* its queryFn would issue.  The variant leaves the date the queryFn uses out
\* of the key.
PageSlotsDateNotInKey(page, ctx) ==
  [i \in 1..Len(PageQueries(page)) |->
     [key |-> QueryKey(page, PageQueries(page)[i],
                       [ctx EXCEPT !.date = DefaultDate]),
      enabled |-> QueryEnabled(page, PageQueries(page)[i], ctx),
      params |-> RequestParams(QueryFn(PageQueries(page)[i]),
                               QueryArgs(page, PageQueries(page)[i], ctx))]]

PageSlots(page, ctx) ==
  [i \in 1..Len(PageQueries(page)) |->
     [key |-> QueryKey(page, PageQueries(page)[i], ctx),
      enabled |-> QueryEnabled(page, PageQueries(page)[i], ctx),
      params |-> RequestParams(QueryFn(PageQueries(page)[i]),
                               QueryArgs(page, PageQueries(page)[i], ctx))]]

\* ------------------------------------------------------------------------
\* State setters.  React re-renders when a setter changes the value
\* (Object.is), commits that render, and only then runs the effects whose
\* dependencies changed; event handlers and promise callbacks run to
\* completion, so nothing else runs between the commit and its effects.
\* ------------------------------------------------------------------------

\* setSelectedState(state) and, when withDistrict, setSelectedDistrict(district)
\* in the same handler (one batched render).
CommitSelection(op, state, district, arg) ==
  /\ ~pendingEffect
  /\ (Truthy(state) /\ state # selectedState) => Len(requests) < MaxRequests
  /\ selectedState' = state
  /\ selectedDistrict' = district
  /\ pendingEffect' =
       (DistrictEffectDeps(state, district)
          # DistrictEffectDeps(selectedState, selectedDistrict))
  /\ lastEvent' = Event(op, arg)
  /\ chosenUnder' = IF district # selectedDistrict THEN state ELSE chosenUnder
  /\ statesFetch' = IF StatesEffectDeps(state) # StatesEffectDeps(selectedState)
                    THEN "pending"
                    ELSE statesFetch
  /\ UNCHANGED <<states, districts, isLoadingStates, isLoadingDistricts,
                 backendStates, requests>>
  /\ UNCHANGED apiVars
  /\ PageFollows

\* Sidebar: the "All India" entry of the state dropdown.
SelectAllIndia ==
  CommitSelection("setSelectedState", NULL, selectedDistrict, NULL)

\* Sidebar: one entry of the state dropdown (listed once states are loaded).
SelectState ==
  \E state \in SeqToSet(states) :
    /\ ~isLoadingStates
    /\ CommitSelection("setSelectedState", state, selectedDistrict, state)

\* Sidebar: the "All Districts" entry of the district dropdown.
SelectAllDistricts ==
  /\ Truthy(selectedState)
  /\ CommitSelection("setSelectedDistrict", selectedState, NULL, NULL)

\* Sidebar: one entry of the district dropdown.
SelectDistrict ==
  \E district \in SeqToSet(districts) :
    /\ Truthy(selectedState)
    /\ ~isLoadingDistricts
    /\ CommitSelection("setSelectedDistrict", selectedState, district, district)

\* Sidebar: "Reset to All India" calls both setters in one handler.
ResetToAllIndia ==
  /\ Truthy(selectedState) \/ Truthy(selectedDistrict)
  /\ CommitSelection("reset", NULL, NULL, NULL)

\* ------------------------------------------------------------------------
\* Equity page: map and leaderboard controls
\* ------------------------------------------------------------------------

STATE_NAME_MAP ==
     (<<"O", "r", "i", "s", "s", "a">>
       :> <<"O", "d", "i", "s", "h", "a">>)
  @@ (<<"U", "t", "t", "a", "r", "a", "n", "c", "h", "a", "l">>
       :> <<"U", "t", "t", "a", "r", "a", "k", "h", "a", "n", "d">>)
  @@ (<<"A", "n", "d", "a", "m", "a", "n", " ", "a", "n", "d", " ", "N", "i", "c", "o", "b", "a", "r">>
       :> <<"A", "n", "d", "a", "m", "a", "n", " ", "a", "n", "d", " ", "N", "i", "c", "o", "b", "a", "r", " ", "I", "s", "l", "a", "n", "d", "s">>)
  @@ (<<"D", "a", "d", "r", "a", " ", "a", "n", "d", " ", "N", "a", "g", "a", "r", " ", "H", "a", "v", "e", "l", "i">>
       :> <<"D", "a", "d", "r", "a", " ", "a", "n", "d", " ", "N", "a", "g", "a", "r", " ", "H", "a", "v", "e", "l", "i", " ", "a", "n", "d", " ", "D", "a", "m", "a", "n", " ", "a", "n", "d", " ", "D", "i", "u">>)
  @@ (<<"D", "a", "m", "a", "n", " ", "a", "n", "d", " ", "D", "i", "u">>
       :> <<"D", "a", "d", "r", "a", " ", "a", "n", "d", " ", "N", "a", "g", "a", "r", " ", "H", "a", "v", "e", "l", "i", " ", "a", "n", "d", " ", "D", "a", "m", "a", "n", " ", "a", "n", "d", " ", "D", "i", "u">>)

\* STATE_NAME_MAP[geoJsonName] || geoJsonName
normalizeStateName(geoJsonName) ==
  IF geoJsonName \in DOMAIN STATE_NAME_MAP
  THEN STATE_NAME_MAP[geoJsonName]
  ELSE geoJsonName

\* Click on a map feature: onStateClick(normalizedName) -> handleStateClick.
MapClickState ==
  \E geoJsonName \in GeoFeatureNames :
    CommitSelection("setSelectedState", normalizeStateName(geoJsonName),
                    selectedDistrict, normalizeStateName(geoJsonName))

\* The X button of the selected-state badge: onStateClick('').
MapClearState ==
  /\ Truthy(selectedState)
  /\ CommitSelection("setSelectedState", <<>>, selectedDistrict, <<>>)

\* Leaderboard row: !selectedState && setSelectedState(item.name)
LeaderboardClick ==
  \E name \in LeaderboardNames :
    /\ ~Truthy(selectedState)
    /\ CommitSelection("setSelectedState", name, selectedDistrict, name)

\* ------------------------------------------------------------------------
\* Effects and promise callbacks of LocationProvider
\* ------------------------------------------------------------------------

\* useEffect(..., [selectedState]): fetchDistricts() up to its first await,
\* then setSelectedDistrict(null).  The variant guards with
\* selectedState === null instead of !selectedState.
DistrictEffectNullCheck ==
  /\ pendingEffect
  /\ IF selectedState = NULL
     THEN /\ districts' = <<>>
          /\ UNCHANGED <<isLoadingDistricts, requests>>
     ELSE /\ isLoadingDistricts' = TRUE
          /\ requests' = Append(requests,
                           [state |-> selectedState, status |-> "pending"])
          /\ UNCHANGED districts
  /\ selectedDistrict' = NULL
  /\ pendingEffect' =
       (DistrictEffectDeps(selectedState, NULL)
          # DistrictEffectDeps(selectedState, selectedDistrict))
  /\ UNCHANGED <<selectedState, states, isLoadingStates, backendStates,
                 statesFetch, lastEvent, chosenUnder>>
  /\ UNCHANGED apiVars
  /\ PageFollows

DistrictEffect ==
  /\ pendingEffect
  /\ IF ~Truthy(selectedState)
     THEN /\ districts' = <<>>
          /\ UNCHANGED <<isLoadingDistricts, requests>>
     ELSE /\ isLoadingDistricts' = TRUE
          /\ requests' = Append(requests,
                           [state |-> selectedState, status |-> "pending"])
          /\ UNCHANGED districts
  /\ selectedDistrict' = NULL
  /\ pendingEffect' =
       (DistrictEffectDeps(selectedState, NULL)
          # DistrictEffectDeps(selectedState, selectedDistrict))
  /\ UNCHANGED <<selectedState, states, isLoadingStates, backendStates,
                 statesFetch, lastEvent, chosenUnder>>
  /\ UNCHANGED apiVars
  /\ PageFollows

\* fetchDistricts after the await: response.data?.districts || [], sorted;
\* a throwing .sort() lands in the catch block.
DistrictsResolved(i) ==
  /\ ~pendingEffect
  /\ i \in InFlight
  /\ LET body == DistrictsResponseBody(requests[i].state)
         districtList == UnwrapOrEmpty(body, "districts")
     IN  districts' = IF districtList.t = "array"
                      THEN SortStrings(districtList.v)
                      ELSE <<>>
  /\ isLoadingDistricts' = FALSE
  /\ requests' = [requests EXCEPT ![i].status = "ok"]
  /\ lastEvent' = Event("districtsResolved", requests[i].state)
  /\ UNCHANGED <<selectedState, selectedDistrict, states, isLoadingStates,
                 pendingEffect, backendStates, statesFetch, chosenUnder>>
  /\ UNCHANGED apiVars
  /\ PageFollows

\* fetchDistricts: the request rejects (catch, then finally).  The variant
\* has a catch block that only logs.
DistrictsRejectedKeepsList(i) ==
  /\ ~pendingEffect
  /\ i \in InFlight
  /\ isLoadingDistricts' = FALSE
  /\ requests' = [requests EXCEPT ![i].status = "failed"]
  /\ lastEvent' = Event("districtsRejected", requests[i].state)
  /\ UNCHANGED <<selectedState, selectedDistrict, states, districts,
                 isLoadingStates, pendingEffect, backendStates, statesFetch,
                 chosenUnder>>
  /\ UNCHANGED apiVars
  /\ PageFollows

DistrictsRejected(i) ==
  /\ ~pendingEffect
  /\ i \in InFlight
  /\ districts' = <<>>
  /\ isLoadingDistricts' = FALSE
  /\ requests' = [requests EXCEPT ![i].status = "failed"]
  /\ lastEvent' = Event("districtsRejected", requests[i].state)
  /\ UNCHANGED <<selectedState, selectedDistrict, states, isLoadingStates,
                 pendingEffect, backendStates, statesFetch, chosenUnder>>
  /\ UNCHANGED apiVars
  /\ PageFollows

\* fetchStates after the await: response.data?.states || [], normalized.
StatesResolved ==
  /\ ~pendingEffect
  /\ statesFetch = "pending"
  /\ LET body == StatesResponseBody(backendStates)
         stateList == UnwrapOrEmpty(body, "states")
     IN  states' = IF stateList.t = "array"
                   THEN NormalizeStateList(stateList.v)
                   ELSE states
  /\ isLoadingStates' = FALSE
  /\ statesFetch' = "resolved"
  /\ lastEvent' = Event("statesResolved", NULL)
  /\ UNCHANGED <<selectedState, selectedDistrict, districts,
                 isLoadingDistricts, pendingEffect, backendStates, requests,
                 chosenUnder>>
  /\ UNCHANGED apiVars
  /\ PageFollows

\* fetchStates: the request rejects (catch, then finally).
StatesRejected ==
  /\ ~pendingEffect
  /\ statesFetch = "pending"
  /\ isLoadingStates' = FALSE
  /\ statesFetch' = "rejected"
  /\ lastEvent' = Event("statesRejected", NULL)
  /\ UNCHANGED <<selectedState, selectedDistrict, states, districts,
                 isLoadingDistricts, pendingEffect, backendStates, requests,
                 chosenUnder>>
  /\ UNCHANGED apiVars
  /\ PageFollows

Next ==
  \/ SelectAllIndia
  \/ SelectState
  \/ SelectAllDistricts
  \/ SelectDistrict
  \/ ResetToAllIndia
  \/ MapClickState
  \/ MapClearState
  \/ LeaderboardClick
  \/ DistrictEffect
  \/ \E i \in 1..MaxRequests : DistrictsResolved(i)
  \/ \E i \in 1..MaxRequests : DistrictsRejected(i)
  \/ StatesResolved
  \/ StatesRejected

Spec == Init /\ [][Next]_vars

\* ------------------------------------------------------------------------
\* The states list over every raw backend list up to MaxRawStates entries,
\* with the sidebar's state dropdown.
\* ------------------------------------------------------------------------

InitNorm ==
  /\ InitLocation(ListsUpTo(RawStateNames, MaxRawStates))
  /\ InitApiIdle
  /\ InitShell({"none"})

NextNorm ==
  \/ StatesResolved
  \/ StatesRejected
  \/ SelectState
  \/ DistrictEffect

SpecNorm == InitNorm /\ [][NextNorm]_vars

\* ------------------------------------------------------------------------
\* API client calls: one invocation at a time, from call to settlement
\* ------------------------------------------------------------------------

\* A page or test calls fn(...args): the function issues its api.get.
InvokeApi ==
  \E fn \in ApiFunctions :
    \E a \in ArgumentsOf(fn) :
      /\ apiPhase # "pending"
      /\ apiPhase' = "pending"
      /\ apiFn' = fn
      /\ apiArgs' = a
      /\ apiParams' = RequestParams(fn, a)
      /\ apiBody' = JSUndefined
      /\ apiResult' = JSUndefined
      /\ apiHttp' = <<"sent">>
      /\ UNCHANGED <<locationVars, queryVars, forecastVars, clientVars, pageVars>>

\* The request succeeds with some body: the function returns.
ApiFulfilled ==
  \E i \in 1..Len(ResponseBodies(apiFn)) :
    /\ apiPhase = "pending"
    /\ apiPhase' = "fulfilled"
    /\ apiBody' = ResponseBodies(apiFn)[i]
    /\ apiResult' = ReturnValue(apiFn, ResponseBodies(apiFn)[i])
    /\ apiHttp' = [apiHttp EXCEPT ![Len(apiHttp)] = "2xx"]
    /\ UNCHANGED <<apiFn, apiArgs, apiParams>>
    /\ UNCHANGED <<locationVars, queryVars, forecastVars, clientVars, pageVars>>

\* The request fails (network failure or non-2xx status): the awaited
\* rejection propagates to the caller, no function has a try/catch.  The
\* variant catches the error and returns an empty list.
ApiRejectedReturnsDefault ==
  /\ apiPhase = "pending"
  /\ apiPhase' = "fulfilled"
  /\ apiResult' = JSArray(<<>>)
  /\ apiHttp' = [apiHttp EXCEPT ![Len(apiHttp)] = "failed"]
  /\ UNCHANGED <<apiFn, apiArgs, apiParams, apiBody>>
  /\ UNCHANGED <<locationVars, queryVars, forecastVars, clientVars, pageVars>>

ApiRejected ==
  /\ apiPhase = "pending"
  /\ apiPhase' = "rejected"
  /\ apiHttp' = [apiHttp EXCEPT ![Len(apiHttp)] = "failed"]
  /\ UNCHANGED <<apiFn, apiArgs, apiParams, apiBody, apiResult>>
  /\ UNCHANGED <<locationVars, queryVars, forecastVars, clientVars, pageVars>>

InitApi == InitLocation({<<>>}) /\ InitApiIdle /\ InitShell({"none"})

NextApi ==
  \/ InvokeApi
  \/ ApiFulfilled
  \/ ApiRejected

SpecApi == InitApi /\ [][NextApi]_vars

\* ------------------------------------------------------------------------
\* Properties of the Location Context
\* ------------------------------------------------------------------------

StateText(state) == IF state = NULL THEN sNullText ELSE state

\* The handler has run and so has the effect its render triggered, if any.
Settled(op) == lastEvent.op = op /\ ~pendingEffect

IssuedOneRequestFor(state) ==
  /\ Len(requests) = lastEvent.prevRequests + 1
  /\ requests[Len(requests)] = [state |-> state, status |-> "pending"]

C2_DistrictBelongsToState ==
  selectedDistrict # NULL
    => (selectedState # NULL /\ chosenUnder = selectedState)

\* C3: once no district fetch is in flight, districts[] is the list returned
\* for the selected state (empty after a failure), and empty when no state
\* is selected.
C3_LastKeyWins ==
  (InFlight = {} /\ ~pendingEffect) =>
    IF Truthy(selectedState)
    THEN /\ requests[Len(requests)].state = selectedState
         /\ districts = IF requests[Len(requests)].status = "ok"
                        THEN SortStrings(DistrictsOfState(selectedState))
                        ELSE <<>>
    ELSE districts = <<>>

C5_DistrictSetterFrame ==
  [][(~pendingEffect /\ lastEvent'.op = "setSelectedDistrict") =>
       /\ UNCHANGED <<selectedState, states, districts, isLoadingStates,
                      isLoadingDistricts, requests, statesFetch>>
       /\ ~pendingEffect']_vars

C5_Witness ==
  /\ Settled("setSelectedDistrict")
  /\ lastEvent.arg # NULL
  /\ selectedDistrict = lastEvent.arg
  /\ selectedDistrict # lastEvent.prevDistrict

C7_FailedFetch ==
  [][/\ (~pendingEffect /\ lastEvent'.op = "statesRejected") =>
          /\ states' = <<>>
          /\ ~isLoadingStates'
          /\ statesFetch' = "rejected"
          /\ ~pendingEffect'
          /\ UNCHANGED <<selectedState, selectedDistrict, districts,
                         isLoadingDistricts, requests>>
     /\ (~pendingEffect /\ lastEvent'.op = "districtsRejected") =>
          /\ districts' = <<>>
          /\ ~isLoadingDistricts'
          /\ Len(requests') = Len(requests)
          /\ InFlight' \subseteq InFlight
          /\ ~pendingEffect'
          /\ UNCHANGED <<selectedState, selectedDistrict, states,
                         isLoadingStates, statesFetch>>
     /\ (statesFetch = "rejected") => (statesFetch' = "rejected")]_vars

C7_Witness ==
  /\ Settled("districtsRejected")
  /\ statesFetch = "rejected"
  /\ districts = <<>>
  /\ ~isLoadingDistricts
  /\ \E i \in 1..Len(requests) : requests[i].status = "ok"

\* ------------------------------------------------------------------------
\* Properties of the states list
\* ------------------------------------------------------------------------

sWestBengal == <<"W", "e", "s", "t", " ", "B", "e", "n", "g", "a", "l">>

\* A known variant: its trimmed, lower-cased, single-spaced form is a key of
\* the alias table.
KnownVariant(name) == NormalizationKey(name) \in DOMAIN stateNormalization

CanonicalOf(name) == stateNormalization[NormalizationKey(name)]

AcceptedOptionalKeys(fn) ==
  CASE fn \in SummaryFunctions \cup TrendFunctions \cup {"fetchAnomalies"} ->
         {"state", "district"}
    [] fn = "fetchCapacityPlanning" -> {"state", "district", "period", "level"}
    [] fn \in {"fetchUnderserved", "fetchFraudRisk"} ->
         {"state", "period", "limit"}
    [] fn \in {"fetchClustering", "fetchMonthlyComparison"} -> {"state"}
    [] fn \in {"fetchHotspots", "fetchMBUProjection"} -> {"state", "period"}
    [] fn = "fetchStateComparison" -> {"period"}
    [] fn = "fetchDistrictComparison" -> {"state", "top_n"}
    [] OTHER -> {}

\* The argument a query key is taken from.
ArgumentFor(fn, a, key) ==
  IF fn \in SummaryFunctions \cup TrendFunctions \cup {"fetchAnomalies"}
  THEN OptionalGet(a.filter, key)
  ELSE CASE key = "state" -> a.state
         [] key = "district" -> a.district
         [] key = "period" -> a.period
         [] key = "level" -> a.level
         [] key = "limit" -> a.limit
         [] key = "top_n" -> a.topN

NonNullNonEmpty(value) ==
  /\ value.t \notin {"undefined", "null"}
  /\ ~(value.t = "string" /\ value.v = <<>>)

FilterOf(state, district) ==
  JSObject(("state" :> state) @@ ("district" :> district))

\* C9 as stated: for every function and every optional key it accepts, the
\* key is in the query parameters iff the argument is non-null and non-empty.
C9_AsStated ==
  apiPhase # "idle" =>
    \A key \in AcceptedOptionalKeys(apiFn) :
      (key \in DOMAIN apiParams)
        <=> NonNullNonEmpty(ArgumentFor(apiFn, apiArgs, key))

\* C9 amended: every optional key a function forwards is in the query
\* parameters, with the argument's value, iff the argument is truthy
\* (non-null, non-empty and, for limit and top_n, non-zero); fetchAnomalies
\* forwards only state, never district; fetchDistrictComparison always sends
\* its required state.  {state: "Odisha", district: null} sends state=Odisha
\* and no district key; {state: null, district: null} sends only
\* simulation_date.
C9_OptionalParamsIffTruthy ==
  apiPhase # "idle" =>
    /\ \A key \in AcceptedOptionalKeys(apiFn) :
         IF apiFn = "fetchAnomalies" /\ key = "district"
         THEN key \notin DOMAIN apiParams
         ELSE IF apiFn = "fetchDistrictComparison" /\ key = "state"
         THEN key \in DOMAIN apiParams /\ apiParams[key] = apiArgs.state
         ELSE /\ (key \in DOMAIN apiParams)
                   <=> JSTruthy(ArgumentFor(apiFn, apiArgs, key))
              /\ (key \in DOMAIN apiParams)
                   => apiParams[key] = ArgumentFor(apiFn, apiArgs, key)
    /\ (apiFn \in SummaryFunctions \cup TrendFunctions
          /\ apiArgs.filter = FilterOf(JSString(sOdisha), JSNull))
         => /\ DOMAIN apiParams = {"simulation_date", "state"}
            /\ apiParams["state"] = JSString(sOdisha)
    /\ (apiFn \in SummaryFunctions \cup TrendFunctions \cup {"fetchAnomalies"}
          /\ apiArgs.filter = FilterOf(JSNull, JSNull))
         => DOMAIN apiParams = {"simulation_date"}

C9_Witness ==
  /\ apiPhase = "pending"
  /\ apiFn = "fetchEnrollmentSummary"
  /\ apiArgs.filter = FilterOf(JSString(sOdisha), JSNull)
  /\ DOMAIN apiParams = {"simulation_date", "state"}
  /\ apiParams["state"] = JSString(sOdisha)

ApiListConsumers == TrendFunctions \cup {"fetchAnomalies", "fetchHeatmapData"}

IsEnvelope(body, key) ==
  /\ body.t = "object"
  /\ key \in DOMAIN body.v
  /\ body.v[key].t = "array"

\* C10: a list consumer returns the inner array of an envelope, a bare array
\* unchanged, and [] for every other body.
C10_ListOrEmpty ==
  (apiPhase = "fulfilled" /\ apiFn \in ApiListConsumers) =>
    apiResult =
      IF IsEnvelope(apiBody, EnvelopeKey(apiFn))
      THEN apiBody.v[EnvelopeKey(apiFn)]
      ELSE IF apiBody.t = "array" THEN apiBody ELSE JSArray(<<>>)

\* ------------------------------------------------------------------------
\* Query Cache Layer: entries, subscription and settlement
\* ------------------------------------------------------------------------

\* Bound on the network calls of one run: a page of n queries may start a
\* round of fetches while fewer than MaxFetches + n - 1 calls were issued.
MaxFetches == 3

\* The Equity page starts five calls when it mounts and three with each
\* change of the selected state: it is explored through three renders.
MaxEquityFetches == 9

FetchBudget(page, slots) ==
  IF page = "Equity" THEN MaxEquityFetches ELSE MaxFetches + Len(slots) - 1

\* The values of the three heatmap points the backend serves.
HeatmapValues == <<10, 30, 20>>

\* The body the backend serves for a request: list resources in their
\* envelope, every other resource as one object; each item echoes the request.
BackendBody(fn, params) ==
  CASE fn = "fetchHeatmapData" ->
         JSObject("locations" :>
           JSArray([i \in 1..Len(HeatmapValues) |->
                      JSObject(("value" :> JSNumber(HeatmapValues[i]))
                                 @@ params)]))
    [] fn = "fetchAnomalies" ->
         JSObject("anomalies" :> JSArray(<<JSObject(params)>>))
    [] fn \in TrendFunctions ->
         JSObject("data" :> JSArray(<<JSObject(params)>>))
    [] OTHER -> JSObject(params)

\* A QueryEntry that has just been created and started fetching.  The
\* variant creates it as if its fetch had already succeeded.
NewEntryAsSuccess(params) ==
  [status |-> "success", inflight |-> 1, params |-> params,
   data |-> JSUndefined, dataParams |-> EmptyParams, failures |-> 0]

NewEntry(params) ==
  [status |-> "pending", inflight |-> 1, params |-> params,
   data |-> JSUndefined, dataParams |-> EmptyParams, failures |-> 0]

\* The entry of a disabled query: created, nothing fetched.
IdleEntry(params) == [NewEntry(params) EXCEPT !.inflight = 0]

\* Whether a fetch that failed is issued again: errors are never retried
\* automatically.  The variant retries a fetch until it has failed twice.
RetryFailedFetchTwice(failures) == failures < 2

RetryFailedFetch(failures) == FALSE

\* No freshness window is configured: a settled entry is stale at once.
IsFresh(entry) == FALSE

\* An observer starts following a key.  The variant starts a network call
\* even when one for the key is in flight.
SubscribeNoDedupe(c, key, params) ==
  IF key \notin DOMAIN c
  THEN (key :> NewEntry(params)) @@ c
  ELSE [c EXCEPT ![key] = [@ EXCEPT !.status = "pending",
                                    !.inflight = @ + 1,
                                    !.params = params]]

Subscribe(c, key, params) ==
  IF key \notin DOMAIN c
  THEN (key :> NewEntry(params)) @@ c
  ELSE IF c[key].inflight > 0 \/ IsFresh(c[key])
       THEN c
       ELSE [c EXCEPT ![key] = [@ EXCEPT !.status = "pending",
                                         !.inflight = 1,
                                         !.params = params]]

InflightOf(c, key) == IF key \in DOMAIN c THEN c[key].inflight ELSE 0

\* An observer whose key and enabled option are those of its last render
\* does nothing.
Follows(followed, slots, i) ==
  /\ i <= Len(followed)
  /\ followed[i].key = slots[i].key
  /\ followed[i].enabled = slots[i].enabled

\* A disabled query has an entry and fetches nothing.
Declare(c, slot) ==
  IF slot.enabled
  THEN Subscribe(c, slot.key, slot.params)
  ELSE IF slot.key \in DOMAIN c THEN c
       ELSE (slot.key :> IdleEntry(slot.params)) @@ c

\* The observers of the rendered page follow the keys of this render.
RECURSIVE SubscribeAll(_, _, _, _)
SubscribeAll(acc, slots, followed, i) ==
  IF i > Len(slots)
  THEN acc
  ELSE IF Follows(followed, slots, i)
       THEN SubscribeAll(acc, slots, followed, i + 1)
       ELSE LET next == Declare(acc.cache, slots[i])
            IN SubscribeAll(
                 [cache |-> next,
                  calls |-> acc.calls + InflightOf(next, slots[i].key)
                              - InflightOf(acc.cache, slots[i].key)],
                 slots, followed, i + 1)

\* What useQuery returns for a key.
QueryResult(c, key) ==
  IF key \in DOMAIN c
  THEN [data |-> c[key].data,
        isLoading |-> /\ c[key].data = JSUndefined
                      /\ c[key].status = "pending"
                      /\ c[key].inflight > 0,
        isError |-> c[key].status = "error"]
  ELSE [data |-> JSUndefined, isLoading |-> TRUE, isError |-> FALSE]

\* Array.prototype.sort((a, b) => b.value - a.value): stable, in place.
RECURSIVE InsertByValueDesc(_, _)
InsertByValueDesc(x, sorted) ==
  IF sorted = <<>> THEN <<x>>
  ELSE IF x.v["value"].v > Head(sorted).v["value"].v
       THEN <<x>> \o sorted
       ELSE <<Head(sorted)>> \o InsertByValueDesc(x, Tail(sorted))

RECURSIVE SortByValueDesc(_)
SortByValueDesc(list) ==
  IF list = <<>> THEN <<>>
  ELSE InsertByValueDesc(list[Len(list)],
                         SortByValueDesc(SubSeq(list, 1, Len(list) - 1)))

\* ------------------------------------------------------------------------
\* The shell's controls, the page render and the settlement of fetches
\* ------------------------------------------------------------------------

\* MapView's "Top Districts" list calls heatmapData.sort(...) on the array
\* useQuery returned, which is the array held by the cache entry.
RenderMutations(page, slots, c) ==
  IF /\ page = "MapView"
     /\ slots[1].key \in DOMAIN c
     /\ ~QueryResult(c, slots[1].key).isLoading
     /\ c[slots[1].key].data.t = "array"
  THEN [c EXCEPT ![slots[1].key].data = JSArray(SortByValueDesc(@.v))]
  ELSE c

\* The mounted page renders: every useQuery computes its key, observers whose
\* key changed (or that are new) subscribe, and the page body is evaluated.
Render ==
  /\ pendingRender
  /\ ~renderError
  /\ LET slots == PageSlots(route, RenderContext)
         acc == SubscribeAll([cache |-> cache, calls |-> 0], slots,
                             observed, 1)
     IN /\ acc.calls > 0 => fetchCount < FetchBudget(route, slots)
        /\ cache' = RenderMutations(route, slots, acc.cache)
        /\ fetchCount' = fetchCount + acc.calls
        /\ observed' = [i \in 1..Len(slots) |->
                          [key |-> slots[i].key,
                           enabled |-> slots[i].enabled]]
  /\ pendingRender' = FALSE
  /\ UNCHANGED <<route, simulationDate, sidebarOpen, selectedPeriod>>
  /\ UNCHANGED <<locationVars, apiVars, forecastVars, clientVars, pageVars>>

\* The routes among which navigation is explored; the pages of several
\* queries are explored on their own.
NavPages == {"Anomalies", "MapView"}

\* A NavLink of the sidebar: the old page unmounts (its observers and local
\* state go away) and the new page mounts.
Navigate ==
  \E page \in NavPages \ {route} :
    /\ ~pendingRender
    /\ ~pendingEffect
    /\ route' = page
    /\ observed' = <<>>
    /\ selectedPeriod' = NULL
    /\ pendingRender' = TRUE
    /\ UNCHANGED <<simulationDate, sidebarOpen, cache, fetchCount>>
    /\ UNCHANGED <<locationVars, apiVars, forecastVars, clientVars, pageVars>>

\* new Date(...) is an object distinct from the one it replaces.
NewDateRef(ref) == (ref + 1) % 3

\* The values of the date picker that are explored on the pages, and all it
\* can emit: clearing the input emits ''.
PickerDates == {sDefaultDate, sSeptemberFirst}

PickerValues == PickerDates \cup {<<>>}

\* The date picker, shown while the sidebar is open:
\* setSimulationDate(new Date(e.target.value)).  AppContent renders again and
\* formats the new date for the picker's value, which throws on the Invalid
\* Date; nothing catches it, so the tree is unmounted and no page renders.
PickDate(values) ==
  \E value \in values :
    /\ ~pendingRender
    /\ ~pendingEffect
    /\ sidebarOpen
    /\ value # formatDate(simulationDate)
    /\ pickerChange' = value
    /\ simulationDate' = NewDate(value, NewDateRef(simulationDate.ref))
    /\ renderError' = ~IsValidDate(simulationDate')
    /\ pendingRender' = TRUE
    /\ UNCHANGED <<route, sidebarOpen, selectedPeriod, observed, cache,
                   fetchCount, timezoneOffset>>
    /\ UNCHANGED <<locationVars, apiVars, forecastVars, pageVars>>

\* setSidebarOpen(!sidebarOpen): AppContent and the page render again.
ToggleSidebar ==
  /\ ~pendingRender
  /\ ~pendingEffect
  /\ sidebarOpen' = ~sidebarOpen
  /\ pendingRender' = TRUE
  /\ UNCHANGED <<route, simulationDate, selectedPeriod, observed, cache,
                 fetchCount>>
  /\ UNCHANGED <<locationVars, apiVars, forecastVars, clientVars, pageVars>>

\* The Risk page's period select: setSelectedPeriod(e.target.value || undefined).
SelectPeriod ==
  \E period \in {NULL, sDecember} \ {selectedPeriod} :
    /\ ~pendingRender
    /\ ~pendingEffect
    /\ route = "Risk"
    /\ selectedPeriod' = period
    /\ pendingRender' = TRUE
    /\ UNCHANGED <<route, simulationDate, sidebarOpen, observed, cache,
                   fetchCount>>
    /\ UNCHANGED <<locationVars, apiVars, forecastVars, clientVars, pageVars>>

\* The keys the mounted page's observers follow.
ObservedKeys == {observed[i].key : i \in 1..Len(observed)}

\* A fetch of the key resolves: its entry holds what the query function
\* returned, and the observers of the key make their page render.
FetchResolved ==
  \E key \in DOMAIN cache :
    /\ ~pendingRender
    /\ ~pendingEffect
    /\ cache[key].inflight > 0
    /\ cache' =
         [cache EXCEPT ![key] =
            [@ EXCEPT !.status = "success",
                      !.inflight = @ - 1,
                      !.data = ReturnValue(QueryFn(key.name),
                                 BackendBody(QueryFn(key.name),
                                             cache[key].params)),
                      !.dataParams = cache[key].params]]
    /\ pendingRender' = (key \in ObservedKeys)
    /\ UNCHANGED <<route, simulationDate, sidebarOpen, selectedPeriod,
                   observed, fetchCount>>
    /\ UNCHANGED <<locationVars, apiVars, forecastVars, clientVars, pageVars>>

\* A fetch of the key rejects: after the configured retries its entry is in
\* error and keeps the data it had.
FetchRejected ==
  \E key \in DOMAIN cache :
    /\ ~pendingRender
    /\ ~pendingEffect
    /\ cache[key].inflight > 0
    /\ IF RetryFailedFetch(cache[key].failures)
       THEN /\ fetchCount' = fetchCount + 1
            /\ cache' = [cache EXCEPT ![key].failures = @ + 1]
            /\ UNCHANGED pendingRender
       ELSE /\ cache' = [cache EXCEPT ![key] = [@ EXCEPT !.status = "error",
                                                         !.inflight = @ - 1,
                                                         !.failures = 0]]
            /\ pendingRender' = (key \in ObservedKeys)
            /\ UNCHANGED fetchCount
    /\ UNCHANGED <<route, simulationDate, sidebarOpen, selectedPeriod,
                   observed>>
    /\ UNCHANGED <<locationVars, apiVars, forecastVars, clientVars, pageVars>>

\* The application on one of the routes among which navigation is explored,
\* with the shell's controls.
InitQuery ==
  /\ InitLocation({<<sOrissa, sGoaLower>>})
  /\ InitApiIdle
  /\ InitShell(NavPages)

NextQuery ==
  \/ Render
  \/ Navigate
  \/ PickDate(PickerDates)
  \/ ToggleSidebar
  \/ FetchResolved
  \/ FetchRejected

SpecQuery == InitQuery /\ [][NextQuery]_vars

\* The Risk page with its period select.
InitRisk ==
  /\ InitLocation({<<sOrissa, sGoaLower>>})
  /\ InitApiIdle
  /\ InitShell({"Risk"})

NextRisk ==
  \/ Render
  \/ SelectPeriod
  \/ FetchResolved
  \/ FetchRejected

SpecRisk == InitRisk /\ [][NextRisk]_vars

\* The Dashboard mounted on the default date: its seven queries settle in
\* any order while the shell renders again.
InitDashboard ==
  /\ InitLocation({<<sOrissa, sGoaLower>>})
  /\ InitApiIdle
  /\ InitShell({"Dashboard"})

NextDashboard ==
  \/ Render
  \/ ToggleSidebar
  \/ FetchResolved
  \/ FetchRejected

SpecDashboard == InitDashboard /\ [][NextDashboard]_vars

\* The Dashboard's panels that show one query's data, and that query.
DashboardPanels ==
  {"todayEnrollments", "todayDemographics", "todayBiometrics",
   "cardEnrollments", "cardDemographics", "cardBiometrics",
   "enrollmentTrendsChart"}

PanelQuery(panel) ==
  CASE panel \in {"todayEnrollments", "cardEnrollments"} ->
         "enrollment-summary"
    [] panel \in {"todayDemographics", "cardDemographics"} ->
         "demographic-summary"
    [] panel \in {"todayBiometrics", "cardBiometrics"} -> "biometric-summary"
    [] OTHER -> "enrollment-trends"

\* isLoading of one of the Dashboard's queries.
DashboardQueryLoading(q, c, ctx) ==
  QueryResult(c, QueryKey("Dashboard", q, ctx)).isLoading

\* const isLoading = kpisLoading || enrollmentLoading || demographicLoading
\*                   || biometricLoading
DashboardIsLoading(c, ctx) ==
  \E q \in {"kpis", "enrollment-summary", "demographic-summary",
             "biometric-summary"} : DashboardQueryLoading(q, c, ctx)

\* Whether the panel renders its placeholder ('...' or a skeleton): Today's
\* Activity and the KPI cards test isLoading, the chart its own query's flag.
PanelShowsPlaceholder(panel, c, ctx) ==
  IF panel = "enrollmentTrendsChart"
  THEN DashboardQueryLoading("enrollment-trends", c, ctx)
  ELSE DashboardIsLoading(c, ctx)

\* The pages whose endpoints accept a location filter, with the sidebar's
\* LocationSelector.
FilterPages == {"Enrollments", "Anomalies", "Risk"}

InitFilter ==
  /\ InitLocation({<<sOrissa, sGoaLower>>})
  /\ InitApiIdle
  /\ InitShell(FilterPages)

NextFilter ==
  \/ Render
  \/ FetchResolved
  \/ FetchRejected
  \/ StatesResolved
  \/ SelectAllIndia
  \/ SelectState
  \/ SelectAllDistricts
  \/ SelectDistrict
  \/ DistrictEffect
  \/ \E i \in 1..MaxRequests : DistrictsResolved(i)

SpecFilter == InitFilter /\ [][NextFilter]_vars

\* The Operations page, whose queries follow the Location Context, with the
\* state dropdown of the LocationSelector.
InitOperations ==
  /\ InitLocation({<<sOrissa>>})
  /\ InitApiIdle
  /\ InitShell({"Operations"})

NextOperations ==
  \/ Render
  \/ FetchResolved
  \/ FetchRejected
  \/ StatesResolved
  \/ SelectAllIndia
  \/ SelectState
  \/ DistrictEffect

SpecOperations == InitOperations /\ [][NextOperations]_vars

\* ------------------------------------------------------------------------
\* The Forecast page: a manually triggered mutation.  useMutation's observer
\* follows the mutation started by the latest mutate(); a mutation it no
\* longer follows settles without touching the result the page reads.
\* ------------------------------------------------------------------------

\* Bound on the forecastMutation.mutate() calls of one run.
MaxMutations == 3

\* The districts and horizons offered by the page's selects.
ForecastDistricts == {<<>>, sPuri, sCuttack}

HorizonOptions == {7, 14}

\* The body fetchComprehensiveForecast posts.
ForecastRequest(district, date, horizon) ==
  [district |-> district, forecast_from |-> formatDate(date),
   horizon_days |-> horizon]

\* What the backend answers to the n-th forecast request: the forecast echoes
\* its request and carries the request's ordinal.
ForecastBody(request, n) ==
  JSObject(("district" :> JSString(request.district))
             @@ ("horizon_days" :> JSNumber(request.horizon_days))
             @@ ("request" :> JSNumber(n)))

\* The number of mutations that have settled.
SettledMutations ==
  Cardinality({i \in 1..Len(mutations) : mutations[i].status # "pending"})

\* The district select: setSelectedDistrict(e.target.value); the page renders
\* again at once.
ChooseForecastDistrict ==
  \E district \in ForecastDistricts \ {forecastDistrict} :
    /\ route = "Forecast"
    /\ forecastDistrict' = district
    /\ renderedPending' = (forecastMutation.status = "pending")
    /\ forecastRender' = FALSE
    /\ UNCHANGED <<horizonDays, mutations, forecastMutation>>
    /\ UNCHANGED <<locationVars, apiVars, queryVars, clientVars, pageVars>>

\* The horizon select: setHorizonDays(Number(e.target.value)).
ChooseHorizon ==
  \E horizon \in HorizonOptions \ {horizonDays} :
    /\ route = "Forecast"
    /\ horizonDays' = horizon
    /\ renderedPending' = (forecastMutation.status = "pending")
    /\ forecastRender' = FALSE
    /\ UNCHANGED <<forecastDistrict, mutations, forecastMutation>>
    /\ UNCHANGED <<locationVars, apiVars, queryVars, clientVars, pageVars>>

\* A click on "Generate All", enabled as of the committed render: the button
\* is disabled={!selectedDistrict || forecastMutation.isPending}, and
\* handleForecast mutates if (selectedDistrict).  The observer moves to the
\* new mutation; the render that shows it is scheduled.
HandleForecast ==
  /\ route = "Forecast"
  /\ Truthy(forecastDistrict)
  /\ ~renderedPending
  /\ Len(mutations) < MaxMutations
  /\ mutations' =
       Append(mutations,
              [request |-> ForecastRequest(forecastDistrict, simulationDate,
                                           horizonDays),
               status |-> "pending", settled |-> 0])
  /\ forecastMutation' = [mutation |-> Len(mutations) + 1,
                          status |-> "pending", data |-> JSUndefined]
  /\ forecastRender' = TRUE
  /\ UNCHANGED <<forecastDistrict, horizonDays, renderedPending>>
  /\ UNCHANGED <<locationVars, apiVars, queryVars, clientVars, pageVars>>

\* The scheduled render of the page commits.
ForecastRender ==
  /\ forecastRender
  /\ renderedPending' = (forecastMutation.status = "pending")
  /\ forecastRender' = FALSE
  /\ UNCHANGED <<forecastDistrict, horizonDays, mutations, forecastMutation>>
  /\ UNCHANGED <<locationVars, apiVars, queryVars, clientVars, pageVars>>

\* The result the observer holds after mutation i settles.  The variant lets
\* every mutation that settles write the result.
SettledResultOfAny(i, status) ==
  [mutation |-> i, status |-> status,
   data |-> IF status = "success"
            THEN ForecastBody(mutations[i].request, i)
            ELSE JSUndefined]

SettledResult(i, status) ==
  IF forecastMutation.mutation = i
  THEN [mutation |-> i, status |-> status,
        data |-> IF status = "success"
                 THEN ForecastBody(mutations[i].request, i)
                 ELSE JSUndefined]
  ELSE forecastMutation

\* The request of mutation i resolves or rejects.
ForecastSettled(i) ==
  \E status \in {"success", "error"} :
    /\ i <= Len(mutations)
    /\ mutations[i].status = "pending"
    /\ mutations' = [mutations EXCEPT ![i].status = status,
                                      ![i].settled = SettledMutations + 1]
    /\ forecastMutation' = SettledResult(i, status)
    /\ forecastRender' = (forecastRender
                            \/ forecastMutation' # forecastMutation)
    /\ UNCHANGED <<forecastDistrict, horizonDays, renderedPending>>
    /\ UNCHANGED <<locationVars, apiVars, queryVars, clientVars, pageVars>>

InitForecast ==
  /\ InitLocation({<<sOrissa>>})
  /\ InitApiIdle
  /\ InitShell({"Forecast"})

NextForecast ==
  \/ ChooseForecastDistrict
  \/ ChooseHorizon
  \/ HandleForecast
  \/ ForecastRender
  \/ \E i \in 1..MaxMutations : ForecastSettled(i)

SpecForecast == InitForecast /\ [][NextForecast]_vars

\* ------------------------------------------------------------------------
\* C11: every invocation of an API client function issues exactly one HTTP
\* request; when that request fails the function rejects, issues no second
\* request and returns no value.
\* ------------------------------------------------------------------------

C11_OneRequestNoRetry ==
  /\ apiPhase # "idle" => Len(apiHttp) = 1
  /\ (apiHttp # <<>> /\ apiHttp[Len(apiHttp)] = "failed") =>
       /\ apiPhase = "rejected"
       /\ apiResult = JSUndefined
  /\ apiPhase = "rejected" => apiHttp = <<"failed">>

C11_Witness ==
  /\ apiPhase = "rejected"
  /\ apiFn = "fetchEnrollmentTrends"
  /\ apiHttp = <<"failed">>
  /\ apiResult = JSUndefined

\* ------------------------------------------------------------------------
\* Query Cache claims
\* ------------------------------------------------------------------------

\* The step is a render of the mounted page.
RenderStep == pendingRender /\ ~pendingRender' /\ route' = route

\* Observer i follows another key after the step than before it.
KeyChanged(i) ==
  /\ i <= Len(observed)
  /\ i <= Len(observed')
  /\ observed'[i].key # observed[i].key

\* The default day, picked again after another day: a third Date object.
DefaultDayAgain ==
  /\ formatDate(simulationDate) = formatDate(DefaultDate)
  /\ simulationDate.ref = 2

\* C12: for every query key, subscriptions with structurally identical keys
\* started before the first fetch resolves result in exactly one network
\* call: a key never has two calls in flight, and a render that subscribes to
\* a key whose fetch is in flight issues no call for it; every subscriber
\* reads the one value held by the key's entry.
C12_OneCallPerKey ==
  /\ [](\A key \in DOMAIN cache : cache[key].inflight <= 1)
  /\ [][\A key \in DOMAIN cache :
          (RenderStep /\ cache[key].inflight > 0) =>
            /\ cache'[key].inflight = cache[key].inflight
            /\ cache'[key].params = cache[key].params]_vars

\* The Anomalies page subscribed to the default day's key, then to the other
\* day's, then to the default day's again while both fetches were in flight:
\* three subscriptions, two network calls.
C12_Witness ==
  /\ route = "Anomalies"
  /\ ~pendingRender
  /\ DefaultDayAgain
  /\ fetchCount = 2
  /\ Cardinality(DOMAIN cache) = 2
  /\ \A key \in DOMAIN cache :
       cache[key].inflight = 1 /\ key.name = "anomalies"
  /\ observed = <<[key |-> QueryKey("Anomalies", "anomalies", RenderContext),
                   enabled |-> TRUE]>>

\* What is shown for every query of the rendered page was fetched with the
\* request of the key components the page has now.
ShownDataIsOfCurrentKey ==
  ~pendingRender =>
    \A i \in 1..Len(observed) :
      LET slot == PageSlots(route, RenderContext)[i]
      IN QueryResult(cache, observed[i].key).data # JSUndefined =>
           cache[observed[i].key].dataParams = slot.params

OneKeyPerRequest ==
  \A k1 \in DOMAIN cache : \A k2 \in DOMAIN cache :
    (k1.name = k2.name /\ cache[k1].params = cache[k2].params) => k1 = k2

\* C14: a re-render of a consumer whose keys are unchanged (the sidebar
\* toggled, a new Date object for a day already keyed) issues no network
\* call and starts no fetch; the same day always yields the same key.
C14_SameKeyNoNewCall ==
  /\ []OneKeyPerRequest
  /\ [][(RenderStep /\ observed' = observed) =>
          /\ fetchCount' = fetchCount
          /\ \A key \in DOMAIN cache :
               /\ cache'[key].inflight = cache[key].inflight
               /\ cache'[key].status = cache[key].status]_vars

\* The Anomalies page rendered again with the sidebar closed, its data
\* cached: one network call in all.
C14_Witness ==
  /\ route = "Anomalies"
  /\ ~pendingRender
  /\ ~sidebarOpen
  /\ fetchCount = 1
  /\ LET key == QueryKey("Anomalies", "anomalies", RenderContext)
     IN /\ observed = <<[key |-> key, enabled |-> TRUE]>>
        /\ key \in DOMAIN cache
        /\ cache[key].status = "success"
        /\ ~QueryResult(cache, key).isLoading

\* The step settles a fetch of the key without a response: the fetch is
\* issued again or the entry gives up.
FetchOfKeyFails(key) ==
  /\ cache[key].inflight > 0
  /\ ~RenderStep
  /\ cache'[key].status # "success"
  /\ cache'[key].data = cache[key].data
  /\ cache'[key].dataParams = cache[key].dataParams
  /\ \/ cache'[key].failures > cache[key].failures
     \/ cache'[key].inflight < cache[key].inflight

EntryState(c, key) ==
  IF key \notin DOMAIN c THEN "Idle"
  ELSE CASE c[key].status = "success" -> "Success"
         [] c[key].status = "error" -> "Error"
         [] OTHER -> IF c[key].inflight > 0 THEN "Pending" ELSE "Idle"

EntryTransitions ==
  {<<"Idle", "Pending">>, <<"Pending", "Success">>, <<"Pending", "Error">>,
   <<"Success", "Pending">>, <<"Error", "Pending">>}

\* The step is a render in which an observer starts following the key: the
\* page mounts or a key component changed.
KeyNewlyFollowed(key) ==
  /\ RenderStep
  /\ \E i \in 1..Len(observed') :
       /\ observed'[i].key = key
       /\ i <= Len(observed) => observed[i].key # key

\* The step is a render in which a query of the key that was disabled is
\* enabled.
KeyEnabled(key) ==
  /\ RenderStep
  /\ \E i \in 1..Len(observed') :
       /\ i <= Len(observed)
       /\ observed[i].key = key
       /\ observed'[i].key = key
       /\ ~observed[i].enabled
       /\ observed'[i].enabled

\* A fetch that settles leaves its entry in Success or Error.
SettledFetchEndsPending ==
  \A key \in DOMAIN cache :
    cache'[key].inflight < cache[key].inflight =>
      /\ EntryState(cache, key) = "Pending"
      /\ EntryState(cache', key) \in {"Success", "Error"}

AllMutationsSettled ==
  /\ mutations # <<>>
  /\ \A i \in 1..Len(mutations) : mutations[i].status # "pending"

\* C17: when the forecast mutation is invoked again before an earlier
\* invocation resolves then, once all have settled, in whichever order, the
\* result the page reads (forecastMutation.data / isError) is that of the
\* most recently requested invocation.
C17_LatestRequestWins ==
  AllMutationsSettled =>
    /\ forecastMutation.mutation = Len(mutations)
    /\ forecastMutation.status = mutations[Len(mutations)].status
    /\ forecastMutation.status = "success" =>
         forecastMutation.data
           = ForecastBody(mutations[Len(mutations)].request, Len(mutations))
    /\ forecastMutation.status = "error" =>
         forecastMutation.data = JSUndefined

\* Two invocations, the second started before the first settled; the second
\* resolved first and the first rejected after it: the page shows the
\* second's forecast and no error.
C17_Witness ==
  /\ Len(mutations) = 2
  /\ mutations[2].settled = 1
  /\ mutations[2].status = "success"
  /\ mutations[1].settled = 2
  /\ mutations[1].status = "error"
  /\ forecastMutation.status = "success"
  /\ forecastMutation.data = ForecastBody(mutations[2].request, 2)

\* ------------------------------------------------------------------------
\* Dashboard panels
\* ------------------------------------------------------------------------

\* C18: on the Dashboard, for every combination of pending and settled
\* queries, a panel whose own query has settled shows that query's data and
\* no loading placeholder, whatever the other panels' queries do.
C18_PerPanelLoading ==
  (route = "Dashboard" /\ ~pendingRender) =>
    \A panel \in DashboardPanels :
      LET key == QueryKey("Dashboard", PanelQuery(panel), RenderContext)
      IN (key \in DOMAIN cache /\ cache[key].status = "success") =>
           ~PanelShowsPlaceholder(panel, cache, RenderContext)

\* ------------------------------------------------------------------------
\* Ownership of the cached data
\* ------------------------------------------------------------------------

\* C19: the Query Cache is the only writer of cached data: a render of any
\* page leaves the data held in every QueryEntry unchanged, the element
\* order of cached arrays included.
C19_RenderLeavesCacheData ==
  [][RenderStep =>
       \A key \in DOMAIN cache : cache'[key].data = cache[key].data]_vars

\* ------------------------------------------------------------------------
\* Location Context and the pages' queries
\* ------------------------------------------------------------------------

\* C20: for every query of a page whose endpoint accepts a state filter,
\* the committed render's query key contains the Location Context's
\* selectedState and the request carries it, so that a change of the
\* selection changes the key and refetches.
C20_LocationInKeyAndRequest ==
  (~pendingRender /\ ~pendingEffect /\ Truthy(selectedState)) =>
    \A i \in 1..Len(observed) :
      LET slot == PageSlots(route, RenderContext)[i]
      IN "state" \in AcceptedOptionalKeys(QueryFn(PageQueries(route)[i])) =>
           /\ selectedState \in SeqToSet(observed[i].key.parts)
           /\ "state" \in DOMAIN slot.params
           /\ slot.params["state"] = JSString(selectedState)

\* ------------------------------------------------------------------------
\* The states request
\* ------------------------------------------------------------------------

\* C21: the states list is requested once, at provider initialization: the
\* request, once settled, is never pending again; isLoadingStates is true
\* exactly while it is pending, false once it has settled with either
\* outcome, and never true again.
C21_StatesRequestedOnce ==
  /\ [](isLoadingStates <=> statesFetch = "pending")
  /\ [][/\ statesFetch # "pending" => statesFetch' = statesFetch
        /\ ~isLoadingStates => ~isLoadingStates']_vars

\* The states request has failed, and the user went on to select a state on
\* the map, whose district list was requested.
C21_Witness ==
  /\ statesFetch = "rejected"
  /\ ~isLoadingStates
  /\ states = <<>>
  /\ Truthy(selectedState)
  /\ Len(requests) > 0

\* ------------------------------------------------------------------------
\* The district loading flag
\* ------------------------------------------------------------------------

\* C22: whenever a district-list request for the currently selected state
\* is in flight, isLoadingDistricts is true, whatever the interleaving of
\* the district requests started by successive state selections.
C22_LoadingWhileCurrentFetch ==
  \A i \in InFlight :
    requests[i].state = selectedState => isLoadingDistricts

\* ------------------------------------------------------------------------
\* The values of the location filter
\* ------------------------------------------------------------------------

\* The last handler that ran cleared the selection: "All India", the reset
\* button or the map's clear button.
ClearedLast ==
  \/ lastEvent.op = "reset"
  \/ lastEvent.op = "setSelectedState" /\ ~Truthy(lastEvent.arg)

\* C23: after any sequence of user actions on the sidebar selectors, the
\* reset button, the map, its clear button and the leaderboard, once the
\* effects have run selectedState is null or a member of states[], and
\* clearing the selection from any control leaves exactly {null, null}.
C23_StateIsNullOrListed ==
  ~pendingEffect =>
    /\ (selectedState = NULL \/ selectedState \in SeqToSet(states))
    /\ ClearedLast => (selectedState = NULL /\ selectedDistrict = NULL)

\* ------------------------------------------------------------------------
\* Idempotence of the state-name normalisation
\* ------------------------------------------------------------------------

\* The same raw name written with single internal spaces, and written in
\* lower case: spellings that differ from it only in the amount of internal
\* whitespace, or only in case.
SingleSpaced(name) == CollapseSpaces(name)

LowerCased(name) == ToLowerCase(name)

\* C24: normalising a normalised name returns the same name, and two raw
\* names that differ only in case or in the amount of internal whitespace
\* normalise to the same entry.
C24_NormalizationIdempotent ==
  statesFetch = "resolved" =>
    /\ \A name \in SeqToSet(states) : NormalizeStateName(name) = name
    /\ \A i \in 1..Len(backendStates) :
         KeepStateEntry(backendStates[i]) =>
           /\ NormalizeStateName(SingleSpaced(backendStates[i]))
                = NormalizeStateName(backendStates[i])
           /\ NormalizeStateName(LowerCased(backendStates[i]))
                = NormalizeStateName(backendStates[i])

\* ------------------------------------------------------------------------
\* The simulation date in the browser's time zone
\* ------------------------------------------------------------------------

\* getTimezoneOffset() of a client in India, on UTC and in New York.
TimezoneOffsets == {-330, 0, 300}

\* The Anomalies page under every value the date picker can emit, in each of
\* the time zones.
InitDate ==
  /\ InitLocation({<<sOrissa>>})
  /\ InitApiIdle
  /\ InitShellAt({"Anomalies"}, TimezoneOffsets)

NextDate ==
  \/ Render
  \/ PickDate(PickerValues)
  \/ ToggleSidebar
  \/ FetchResolved
  \/ FetchRejected

SpecDate == InitDate /\ [][NextDate]_vars

\* The date string the user has chosen: the default until the picker's first
\* change event, the event's value afterwards.
ChosenDate == IF pickerChange = NULL THEN sDefaultDate ELSE pickerChange

\* C25: in every time zone the picker's value, the date component of every
\* query key and the simulation_date / forecast_from sent to the backend equal
\* the date string chosen in the picker, and 2025-12-15 with no user input.
C25_DateRoundTrips ==
  ChosenDate \in PickerDates =>
    /\ formatDate(simulationDate) = ChosenDate
    /\ ~pendingRender =>
         \A i \in 1..Len(observed) : observed[i].key.parts = <<ChosenDate>>
    /\ \A i \in 1..Len(PageSlots(route, RenderContext)) :
         PageSlots(route, RenderContext)[i].params["simulation_date"]
           = JSString(ChosenDate)
    /\ ForecastRequest(sPuri, simulationDate, horizonDays).forecast_from
         = ChosenDate

\* C26: no value the date picker emits, the empty string of a cleared input
\* included, makes formatting simulationDate throw: the date stays valid and
\* no render fails.
C26_PickerNeverThrows ==
  /\ IsValidDate(simulationDate)
  /\ ~renderError

\* ------------------------------------------------------------------------
\* Equity page: the two comparison queries
\* ------------------------------------------------------------------------

\* The Equity page with its map and the badge of the selected state: the
\* selection goes from null to a name and from a name to ''.
InitEquity ==
  /\ InitLocation({<<sOrissa>>})
  /\ InitApiIdle
  /\ InitShell({"Equity"})

NextEquity ==
  \/ Render
  \/ FetchResolved
  \/ MapClickState
  \/ MapClearState
  \/ DistrictEffect

SpecEquity == InitEquity /\ [][NextEquity]_vars

\* The query function of the entry has been called at least once.
Invoked(entry) == entry.inflight > 0 \/ entry.status # "pending"

EnabledCount(slots) ==
  Cardinality({i \in 1..Len(slots) :
                 /\ slots[i].key.name \in {"state-comparison",
                                            "district-comparison"}
                 /\ slots[i].enabled})

\* C27: on the Equity page, whatever selectedState is (null, '', a name),
\* exactly one of the state-comparison and district-comparison queries is
\* enabled, and fetchDistrictComparison is never called with a null or empty
\* state.
C27_OneComparisonEnabled ==
  /\ EnabledCount(PageSlots("Equity", RenderContext)) = 1
  /\ (route = "Equity" /\ ~pendingRender) => EnabledCount(observed) = 1
  /\ \A key \in DOMAIN cache :
       (key.name = "district-comparison" /\ Invoked(cache[key]))
         => /\ cache[key].params["state"].t = "string"
            /\ cache[key].params["state"].v # <<>>
            /\ cache[key].params["state"].v = key.parts[1]

C27_Witness ==
  /\ route = "Equity" /\ ~pendingRender
  /\ selectedState = <<>>
  /\ \E i \in 1..Len(observed) :
       observed[i].key.name = "state-comparison" /\ observed[i].enabled
  /\ \E i \in 1..Len(observed) :
       /\ observed[i].key.name = "district-comparison"
       /\ observed[i].key.parts[1] = <<>>
       /\ ~observed[i].enabled
  /\ \E key \in DOMAIN cache :
       key.name = "district-comparison" /\ Invoked(cache[key])

\* ------------------------------------------------------------------------
\* Dashboard: the combined trends chart
\* ------------------------------------------------------------------------

\* Longest trends series explored.
MaxTrendPoints == 15

\* A series of n daily points ending on the same day whatever n is: the last
\* point is day MaxTrendPoints, and a point's total names its series (base)
\* and its day.
TrendSeries(n, base) ==
  JSArray([i \in 1..n |->
             [date |-> MaxTrendPoints - n + i,
              total |-> base + MaxTrendPoints - n + i]])

TrendLengths == {0} \cup 13..MaxTrendPoints

TrendData(base) ==
  {JSUndefined} \cup {TrendSeries(n, base) : n \in TrendLengths}

IsArray(value) == value.t = "array"

\* Array.prototype.slice(-n)
SliceLast(s, n) == IF Len(s) <= n THEN s ELSE SubSeq(s, Len(s) - n + 1, Len(s))

\* point?.total || 0 for series[idx], idx counted from 1 here.
TotalAt(series, idx) ==
  IF IsArray(series) /\ idx <= Len(series.v) THEN series.v[idx].total ELSE 0

\* combinedTrendsData: the rows follow enrollmentTrends.slice(-14), the other
\* two series are read at the row's index.
CombinedTrends(enrollment, demographic, biometric) ==
  IF IsArray(enrollment)
  THEN [idx \in 1..Len(SliceLast(enrollment.v, 14)) |->
          [date |-> SliceLast(enrollment.v, 14)[idx].date,
           enrollments |-> SliceLast(enrollment.v, 14)[idx].total,
           demographics |-> TotalAt(demographic, idx),
           biometrics |-> TotalAt(biometric, idx)]]
  ELSE <<>>

\* One of the three trends queries gets (new) data and the Dashboard renders.
EnrollmentTrendsArrive ==
  \E data \in TrendData(100) \ {enrollmentTrends} :
    /\ enrollmentTrends' = data
    /\ combinedTrendsData' =
         CombinedTrends(data, demographicTrends, biometricTrends)
    /\ UNCHANGED <<demographicTrends, biometricTrends, anomalies,
                   severityFilter, dataTypeFilter, filteredAnomalies>>
    /\ UNCHANGED <<locationVars, apiVars, queryVars, forecastVars, clientVars>>

DemographicTrendsArrive ==
  \E data \in TrendData(200) \ {demographicTrends} :
    /\ demographicTrends' = data
    /\ combinedTrendsData' =
         CombinedTrends(enrollmentTrends, data, biometricTrends)
    /\ UNCHANGED <<enrollmentTrends, biometricTrends, anomalies,
                   severityFilter, dataTypeFilter, filteredAnomalies>>
    /\ UNCHANGED <<locationVars, apiVars, queryVars, forecastVars, clientVars>>

BiometricTrendsArrive ==
  \E data \in TrendData(300) \ {biometricTrends} :
    /\ biometricTrends' = data
    /\ combinedTrendsData' =
         CombinedTrends(enrollmentTrends, demographicTrends, data)
    /\ UNCHANGED <<enrollmentTrends, demographicTrends, anomalies,
                   severityFilter, dataTypeFilter, filteredAnomalies>>
    /\ UNCHANGED <<locationVars, apiVars, queryVars, forecastVars, clientVars>>

InitTrends ==
  /\ InitLocation({<<sOrissa>>})
  /\ InitApiIdle
  /\ InitShell({"Dashboard"})

NextTrends ==
  \/ EnrollmentTrendsArrive
  \/ DemographicTrendsArrive
  \/ BiometricTrendsArrive

SpecTrends == InitTrends /\ [][NextTrends]_vars

EqualLengthSeries ==
  /\ IsArray(enrollmentTrends) /\ IsArray(demographicTrends)
  /\ IsArray(biometricTrends)
  /\ Len(enrollmentTrends.v) = Len(demographicTrends.v)
  /\ Len(enrollmentTrends.v) = Len(biometricTrends.v)

\* C28: for three series of equal length, of more than 14 points as well,
\* row i of combinedTrendsData holds the i-th of the last 14 points of each
\* of the three series.
C28_RowsAlignLastPoints ==
  EqualLengthSeries =>
    /\ Len(combinedTrendsData) = Len(SliceLast(enrollmentTrends.v, 14))
    /\ \A i \in 1..Len(combinedTrendsData) :
         /\ combinedTrendsData[i].enrollments
              = SliceLast(enrollmentTrends.v, 14)[i].total
         /\ combinedTrendsData[i].demographics
              = SliceLast(demographicTrends.v, 14)[i].total
         /\ combinedTrendsData[i].biometrics
              = SliceLast(biometricTrends.v, 14)[i].total

\* ------------------------------------------------------------------------
\* Anomalies page: the two filters
\* ------------------------------------------------------------------------

\* Longest anomaly list explored.
MaxAnomalies == 2

AnomalyKinds ==
  [severity : {"CRITICAL", "LOW"}, data_type : {"enrollment", "biometric"}]

RECURSIVE AnomalyLists(_)
AnomalyLists(n) ==
  IF n = 0 THEN {<<>>}
  ELSE AnomalyLists(n - 1)
         \cup {Append(list, a) : list \in AnomalyLists(n - 1), a \in AnomalyKinds}

\* The options of the severity select.
SeverityOptions == {"all", "CRITICAL", "HIGH", "MEDIUM", "LOW"}

\* [...new Set(anomalies?.map((a) => a.data_type) || [])]
dataTypes(data) ==
  IF IsArray(data) THEN {data.v[i].data_type : i \in 1..Len(data.v)} ELSE {}

KeepAnomaly(a, severity, dataType) ==
  /\ ~(severity # "all" /\ a.severity # severity)
  /\ ~(dataType # "all" /\ a.data_type # dataType)

\* anomalies?.filter(...) || []
FilterAnomalies(data, severity, dataType) ==
  IF IsArray(data)
  THEN LET Keep(a) == KeepAnomaly(a, severity, dataType)
       IN SelectSeq(data.v, Keep)
  ELSE <<>>

\* The severity select: setSeverityFilter(e.target.value), then a render.
SetSeverityFilter ==
  \E value \in SeverityOptions \ {severityFilter} :
    /\ severityFilter' = value
    /\ filteredAnomalies' = FilterAnomalies(anomalies, value, dataTypeFilter)
    /\ UNCHANGED <<enrollmentTrends, demographicTrends, biometricTrends,
                   combinedTrendsData, anomalies, dataTypeFilter>>
    /\ UNCHANGED <<locationVars, apiVars, queryVars, forecastVars, clientVars>>

\* The data-type select, whose options are 'all' and the data types of the
\* loaded anomalies: setDataTypeFilter(e.target.value), then a render.
SetDataTypeFilter ==
  \E value \in ({"all"} \cup dataTypes(anomalies)) \ {dataTypeFilter} :
    /\ dataTypeFilter' = value
    /\ filteredAnomalies' = FilterAnomalies(anomalies, severityFilter, value)
    /\ UNCHANGED <<enrollmentTrends, demographicTrends, biometricTrends,
                   combinedTrendsData, anomalies, severityFilter>>
    /\ UNCHANGED <<locationVars, apiVars, queryVars, forecastVars, clientVars>>

\* A change of the simulation date: the query follows ['anomalies', dateStr]
\* of the new date, which has no data yet; the filters are local state of
\* the page and stay.
AnomaliesDateChanged ==
  /\ anomalies # JSUndefined
  /\ anomalies' = JSUndefined
  /\ filteredAnomalies' =
       FilterAnomalies(JSUndefined, severityFilter, dataTypeFilter)
  /\ UNCHANGED <<enrollmentTrends, demographicTrends, biometricTrends,
                 combinedTrendsData, severityFilter, dataTypeFilter>>
  /\ UNCHANGED <<locationVars, apiVars, queryVars, forecastVars, clientVars>>

\* The anomalies of the current date arrive and the page renders.
AnomaliesArrive ==
  \E list \in AnomalyLists(MaxAnomalies) :
    /\ anomalies = JSUndefined
    /\ anomalies' = JSArray(list)
    /\ filteredAnomalies' =
         FilterAnomalies(JSArray(list), severityFilter, dataTypeFilter)
    /\ UNCHANGED <<enrollmentTrends, demographicTrends, biometricTrends,
                   combinedTrendsData, severityFilter, dataTypeFilter>>
    /\ UNCHANGED <<locationVars, apiVars, queryVars, forecastVars, clientVars>>

InitAnomalies ==
  /\ InitLocation({<<sOrissa>>})
  /\ InitApiIdle
  /\ InitShell({"Anomalies"})

NextAnomalies ==
  \/ SetSeverityFilter
  \/ SetDataTypeFilter
  \/ AnomaliesDateChanged
  \/ AnomaliesArrive

SpecAnomalies == InitAnomalies /\ [][NextAnomalies]_vars

LoadedAnomalies == IF IsArray(anomalies) THEN anomalies.v ELSE <<>>

MatchesBoth(a) ==
  /\ severityFilter = "all" \/ a.severity = severityFilter
  /\ dataTypeFilter = "all" \/ a.data_type = dataTypeFilter

\* C29: filteredAnomalies is exactly the sub-list of the loaded anomalies
\* that match both filters, and after any sequence of filter and date changes
\* the selected data-type filter is 'all' or a data type present in the
\* currently loaded anomalies.
C29_FilterNamesLoadedType ==
  /\ filteredAnomalies = SelectSeq(LoadedAnomalies, MatchesBoth)
  /\ dataTypeFilter = "all" \/ dataTypeFilter \in dataTypes(anomalies)

\* ------------------------------------------------------------------------
\* Forecast page: when a forecast request is issued
\* ------------------------------------------------------------------------

PendingMutations ==
  {i \in 1..Len(mutations) : mutations[i].status = "pending"}

\* C30: every forecast request carries a non-empty district (handleForecast
\* starts no mutation while selectedDistrict is empty), and the Generate
\* button starts no second mutation while one is pending.
C30_ForecastNeedsDistrict ==
  /\ \A i \in 1..Len(mutations) : Truthy(mutations[i].request.district)
  /\ Cardinality(PendingMutations) <= 1

====
